---------------------------- MODULE Spec2Model ----------------------------
(***************************************************************************)
(* A model of the OneShot interpreter (oneShot.js): the Scanner, the       *)
(* Parser, the Environment chain and the statement evaluator.              *)
(*                                                                         *)
(* Source text is a sequence of one-character strings.  OneShot values are *)
(* tagged records [t, v]: numbers (t = "num", v an integer), strings       *)
(* (t = "str", v a sequence of characters), booleans, null and undefined.  *)
(***************************************************************************)
EXTENDS Integers, Sequences, FiniteSets, TLC

VARIABLES
    pc,         \* where OneShot.run stands: "idle", "scanTokens", "scanned", "interpret", "done", "failed"
    scanner,    \* the Scanner object: source, tokens, start, current, line
    error,      \* the error that ended the run, or NoError
    statements, \* the statement list Parser.parse returned
    stack,      \* the chain of suspended interpret() calls of the main program
    envs,       \* the live Environment chain, root first
    running,    \* the global "running" flag
    ctx,        \* the global 2D context: NoCtx until WINDOW runs, then its fillStyle
    printed,    \* the values handed to the host's onPrint hook, in order
    debugged,   \* the values DEBUG wrote to the console, in order
    calls,      \* the fillRect calls issued on the surface, in order
    songs,      \* the Song objects created so far, each with its Sheets
    tasks,      \* the Sheet.play() calls made so far, each with its position
    host,       \* the calls of stop() and run() the host made during the run, in order
    parser      \* the Parser object: tokens and #current

vars ==
    <<pc, scanner, error, statements, stack, envs, running, ctx, printed, debugged, calls,
      songs, tasks, host, parser>>

-----------------------------------------------------------------------------
(* Values *)

Num(n) == [t |-> "num", v |-> n]
Str(s) == [t |-> "str", v |-> s]
Bool(b) == [t |-> "bool", v |-> b]
Null == [t |-> "null", v |-> 0]
Undefined == [t |-> "undefined", v |-> 0]

NoError == [kind |-> "none", line |-> 0]
Error(kind, line) == [kind |-> kind, line |-> line]

Digits == {"0", "1", "2", "3", "4", "5", "6", "7", "8", "9"}

Letters ==
    {"a", "b", "c", "d", "e", "f", "g", "h", "i", "j", "k", "l", "m",
     "n", "o", "p", "q", "r", "s", "t", "u", "v", "w", "x", "y", "z",
     "A", "B", "C", "D", "E", "F", "G", "H", "I", "J", "K", "L", "M",
     "N", "O", "P", "Q", "R", "S", "T", "U", "V", "W", "X", "Y", "Z"}

DigitValue(c) ==
    CASE c = "0" -> 0 [] c = "1" -> 1 [] c = "2" -> 2 [] c = "3" -> 3 [] c = "4" -> 4
      [] c = "5" -> 5 [] c = "6" -> 6 [] c = "7" -> 7 [] c = "8" -> 8 [] c = "9" -> 9

DigitChar(d) ==
    CASE d = 0 -> "0" [] d = 1 -> "1" [] d = 2 -> "2" [] d = 3 -> "3" [] d = 4 -> "4"
      [] d = 5 -> "5" [] d = 6 -> "6" [] d = 7 -> "7" [] d = 8 -> "8" [] d = 9 -> "9"

-----------------------------------------------------------------------------
(* Scanner *)

\* Scanner.#keywords, as <<token type, keyword text>>.  The table's 'UPDATE'
\* entry maps to TokenType.UPDATE, which TokenType does not define, so that
\* word is scanned as an identifier like any word outside the table.
keywords ==
    { <<"AND", <<"A","N","D">>>>, <<"OR", <<"O","R">>>>,
      <<"TRUE", <<"T","R","U","E">>>>, <<"FALSE", <<"F","A","L","S","E">>>>,
      <<"IF", <<"I","F">>>>, <<"ELSE", <<"E","L","S","E">>>>,
      <<"FOR", <<"F","O","R">>>>, <<"WHILE", <<"W","H","I","L","E">>>>,
      <<"END", <<"E","N","D">>>>, <<"THEN", <<"T","H","E","N">>>>,
      <<"LET", <<"L","E","T">>>>, <<"FUN", <<"F","U","N">>>>,
      <<"NULL", <<"N","U","L","L">>>>, <<"ALL", <<"A","L","L">>>>,
      <<"MOUSEX", <<"M","O","U","S","E","X">>>>, <<"MOUSEY", <<"M","O","U","S","E","Y">>>>,
      <<"DEBUG", <<"D","E","B","U","G">>>>, <<"PRINT", <<"P","R","I","N","T">>>>,
      <<"WINDOW", <<"W","I","N","D","O","W">>>>, <<"COLOR", <<"C","O","L","O","R">>>>,
      <<"FILL", <<"F","I","L","L">>>>, <<"TEXT", <<"T","E","X","T">>>>,
      <<"SLEEP", <<"S","L","E","E","P">>>>, <<"SPRITE", <<"S","P","R","I","T","E">>>>,
      <<"SIZE", <<"S","I","Z","E">>>>, <<"DRAW", <<"D","R","A","W">>>>,
      <<"RANDOM", <<"R","A","N","D","O","M">>>>, <<"INPUT", <<"I","N","P","U","T">>>>,
      <<"INT", <<"I","N","T">>>>, <<"MIN", <<"M","I","N">>>>, <<"MAX", <<"M","A","X">>>>,
      <<"ABS", <<"A","B","S">>>>, <<"FLOOR", <<"F","L","O","O","R">>>>,
      <<"CEIL", <<"C","E","I","L">>>>, <<"LERP", <<"L","E","R","P">>>>,
      <<"FRAME", <<"F","R","A","M","E">>>>,
      <<"COLORDATA", <<"C","O","L","O","R","D","A","T","A">>>>,
      <<"PIXELDATA", <<"P","I","X","E","L","D","A","T","A">>>>,
      <<"SONG", <<"S","O","N","G">>>>, <<"SHEET", <<"S","H","E","E","T">>>>,
      <<"BAR", <<"B","A","R">>>>, <<"GAIN", <<"G","A","I","N">>>>,
      <<"BPM", <<"B","P","M">>>>, <<"LOOP", <<"L","O","O","P">>>>,
      <<"TYPE", <<"T","Y","P","E">>>>, <<"PLAY", <<"P","L","A","Y">>>>,
      <<"STOP", <<"S","T","O","P">>>> }

Token(type, lexeme, literal, line) ==
    [type |-> type, lexeme |-> lexeme, literal |-> literal, line |-> line]

NewScanner(source) ==
    [source |-> source, tokens |-> <<>>, start |-> 0, current |-> 0, line |-> 1,
     error |-> NoError]

\* String.prototype.charAt: the empty string outside the text.  Positions are
\* 0-based as in the source.
charAt(source, i) == IF i >= 0 /\ i < Len(source) THEN source[i + 1] ELSE ""

\* String.prototype.substring(from, to): both ends are clamped to the text and
\* swapped when out of order
substring(source, from, to) ==
    LET clamp(i) == IF i < 0 THEN 0 ELSE IF i > Len(source) THEN Len(source) ELSE i
        a == clamp(from)
        b == clamp(to)
    IN  IF a <= b THEN SubSeq(source, a + 1, b) ELSE SubSeq(source, b + 1, a)

isAtEnd(s) == s.current >= Len(s.source)

peek(s) == IF isAtEnd(s) THEN "\\0" ELSE charAt(s.source, s.current)

peekNext(s) ==
    IF s.current + 1 > Len(s.source) THEN "\\0" ELSE charAt(s.source, s.current + 1)

isDigit(c) == c \in Digits

isAlpha(c) == c \in Letters \/ c = "_"

isAlphaNumberic(c) == isAlpha(c) \/ isDigit(c)

\* advance, for the scanner it leaves behind (the character is charAt(current))
advance(s) == [s EXCEPT !.current = s.current + 1]

addToken(s, type, literal) ==
    [s EXCEPT !.tokens =
        Append(s.tokens, Token(type, substring(s.source, s.start, s.current), literal, s.line))]

\* #match(expectedChar): whether it matched, and the scanner it leaves
match(s, expectedChar) ==
    IF isAtEnd(s) \/ charAt(s.source, s.current) # expectedChar
    THEN [hit |-> FALSE, s |-> s]
    ELSE [hit |-> TRUE, s |-> advance(s)]

\* while (cond(peek()) ...) advance(): the position the loop stops at
RECURSIVE SkipWhile(_, _, _)
SkipWhile(source, i, stop) ==
    IF i >= Len(source) \/ charAt(source, i) \in stop THEN i
    ELSE SkipWhile(source, i + 1, stop)

RECURSIVE SkipIn(_, _, _)
SkipIn(source, i, keep) ==
    IF i < Len(source) /\ charAt(source, i) \in keep THEN SkipIn(source, i + 1, keep)
    ELSE i

\* parseFloat of a digit run
RECURSIVE DigitsValue(_)
DigitsValue(text) ==
    IF text = <<>> THEN 0
    ELSE 10 * DigitsValue(SubSeq(text, 1, Len(text) - 1)) + DigitValue(text[Len(text)])

\* parseFloat of the text #number consumed: digits, optionally '.' and digits.
\* A literal with a non-zero fraction is outside the integers the model
\* computes with and is kept as the value "frac" of its text.
parseFloat(text) ==
    LET dot == SkipIn(text, 0, Digits)
        whole == DigitsValue(SubSeq(text, 1, dot))
        fraction == SubSeq(text, dot + 2, Len(text))
    IN  IF \A k \in 1..Len(fraction) : fraction[k] = "0"
        THEN Num(whole)
        ELSE [t |-> "frac", v |-> text]

\* string() that returns at the end of input instead of throwing
stringUnchecked(s) ==
    LET close == SkipWhile(s.source, s.current, {"\""})
        atQuote == [s EXCEPT !.current = close]
        after == advance(atQuote)
    IN  addToken(after, "STRING",
                 Str(substring(after.source, after.start + 1, after.current - 1)))

string(s) ==
    LET close == SkipWhile(s.source, s.current, {"\""})
        atQuote == [s EXCEPT !.current = close]
    IN  IF isAtEnd(atQuote)
        THEN [atQuote EXCEPT !.error = Error("Unterminated string", s.line)]
        ELSE LET after == advance(atQuote)
                 value == substring(after.source, after.start + 1, after.current - 1)
             IN  addToken(after, "STRING", Str(value))

number(s) ==
    LET whole == [s EXCEPT !.current = SkipIn(s.source, s.current, Digits)]
        all == IF peek(whole) = "." /\ isDigit(peekNext(whole))
               THEN [whole EXCEPT !.current = SkipIn(s.source, whole.current + 1, Digits)]
               ELSE whole
    IN  addToken(all, "NUMBER", parseFloat(substring(all.source, all.start, all.current)))

identifier(s) ==
    LET word == [s EXCEPT !.current = SkipIn(s.source, s.current, Letters \cup Digits \cup {"_"})]
        text == substring(word.source, word.start, word.current)
        type == IF \E k \in keywords : k[2] = text
                THEN (CHOOSE k \in keywords : k[2] = text)[1]
                ELSE "IDENTIFIER"
    IN  addToken(word, type, Undefined)

\* the '#' case without its loop: the comment's text is scanned on
commentNotSkipped(s) == s

\* the '#' case: consume up to, not including, the next newline
comment(s) == [s EXCEPT !.current = SkipWhile(s.source, s.current, {"\n"})]

\* Scanner.#scanToken
scanToken(s0) ==
    LET c == charAt(s0.source, s0.current)
        s == advance(s0)
    IN  CASE c = "(" -> addToken(s, "LEFT_P", Undefined)
          [] c = ")" -> addToken(s, "RIGHT_P", Undefined)
          [] c = ":" -> addToken(s, "COLON", Undefined)
          [] c = "," -> addToken(s, "COMMA", Undefined)
          [] c = "-" -> addToken(s, "MINUS", Undefined)
          [] c = "+" -> addToken(s, "PLUS", Undefined)
          [] c = "/" -> addToken(s, "SLASH", Undefined)
          [] c = "*" -> addToken(s, "STAR", Undefined)
          [] c = "!" -> addToken(s, "NOT", Undefined)
          [] c = "=" ->
                LET m == match(s, "=")
                IN  addToken(m.s, IF m.hit THEN "EQUAL_EQUAL" ELSE "EQUAL", Undefined)
          [] c = ">" ->
                LET m == match(s, "=")
                IN  addToken(m.s, IF m.hit THEN "GREATER_EQUAL" ELSE "GREATER", Undefined)
          [] c = "<" ->
                LET le == match(s, "=")
                    ne == match(s, ">")
                IN  IF le.hit THEN addToken(le.s, "LESS_EQUAL", Undefined)
                    ELSE IF ne.hit THEN addToken(ne.s, "NOT_EQUAL", Undefined)
                    ELSE addToken(s, "LESS", Undefined)
          [] c = "#" -> comment(s)
          [] c \in {" ", "\r", "\t"} -> s
          [] c = "\n" -> [s EXCEPT !.line = s.line + 1]
          [] c = "\"" -> string(s)
          [] OTHER ->
                IF isDigit(c) THEN number(s)
                ELSE IF isAlpha(c) THEN identifier(s)
                ELSE [s EXCEPT !.error = Error("Unexpected character.", s.line)]

\* one turn of the loop of Scanner.scanTokens
scanLoop(s) == scanToken([s EXCEPT !.start = s.current])

\* the end of Scanner.scanTokens: the EOF token
scanEnd(s) == [s EXCEPT !.tokens = Append(s.tokens, Token("EOF", <<>>, Null, s.line))]

\* Scanner.scanTokens, run to its end
RECURSIVE scanTokens(_)
scanTokens(s) ==
    IF s.error # NoError THEN s
    ELSE IF isAtEnd(s) THEN scanEnd(s)
    ELSE scanTokens(scanLoop(s))


-----------------------------------------------------------------------------
(* Parser: expressions *)

\* A parse result: the node built and the parser's #current after it, or the
\* error thrown.  Token positions are 0-based as in the source.
NoNode == [k |-> "null"]
Parsed(node, cur) == [err |-> NoError, node |-> node, cur |-> cur]
Thrown(message, line) == [err |-> Error(message, line), node |-> NoNode, cur |-> 0]

parserPeek(toks, cur) == toks[cur + 1]

previous(toks, cur) == toks[cur]

parserIsAtEnd(toks, cur) == parserPeek(toks, cur).type = "EOF"

check(toks, cur, type) ==
    IF parserIsAtEnd(toks, cur) THEN FALSE ELSE parserPeek(toks, cur).type = type

\* #match(...types): whether the current token is one of the types (it is
\* then consumed: #current is cur + 1)
matches(toks, cur, types) == \E type \in types : check(toks, cur, type)

\* #consume(type, errorMessage); line is the line the message quotes, or 0
consume(toks, cur, type, message, line) ==
    IF check(toks, cur, type) THEN Parsed(previous(toks, cur + 1), cur + 1)
    ELSE Thrown(message, line)

peekLine(toks, cur) == parserPeek(toks, cur).line

Literal(value) == [k |-> "Literal", value |-> value]
Variable(name) == [k |-> "Variable", name |-> name]
Grouping(expr) == [k |-> "Grouping", expr |-> expr]
Unary(token, right) == [k |-> "Unary", token |-> token, right |-> right]
Binary(left, operator, right) ==
    [k |-> "Binary", left |-> left, operator |-> operator, right |-> right]
Logical(left, operator, right) ==
    [k |-> "Logical", left |-> left, operator |-> operator, right |-> right]
Assignment(name, value) == [k |-> "Assignment", name |-> name, value |-> value]
Call(builtin, args) == [k |-> builtin, args |-> args]

\* The parser goes on with Next after a result, or passes on the error thrown.
Bind(result, Next(_)) == IF result.err # NoError THEN result ELSE Next(result)

RECURSIVE expression(_, _)

\* '(' expression (',' expression)* ')' with exactly n expressions, as the
\* builtin calls of #primary consume it; cur is at the '(' expected, or, for
\* n = 0, behind it
RECURSIVE arguments(_, _, _, _)
arguments(toks, cur, n, args) ==
    IF Len(args) = n
    THEN Bind(consume(toks, cur, "RIGHT_P", "Missing enclosing parenthesis",
                      peekLine(toks, cur)),
              LAMBDA close : Parsed(args, close.cur))
    ELSE Bind(IF args = <<>>
              THEN consume(toks, cur, "LEFT_P", "Missing enclosing parenthesis",
                           peekLine(toks, cur))
              ELSE consume(toks, cur, "COMMA", "Missing comma", peekLine(toks, cur)),
              LAMBDA sep :
         Bind(expression(toks, sep.cur),
              LAMBDA arg : arguments(toks, arg.cur, n, Append(args, arg.node))))

call(toks, cur, builtin, n) ==
    Bind(IF n = 0
         THEN consume(toks, cur, "LEFT_P", "Missing enclosing parenthesis", peekLine(toks, cur))
         ELSE Parsed(NoNode, cur),
         LAMBDA open :
    Bind(arguments(toks, open.cur, n, <<>>),
         LAMBDA args : Parsed(Call(builtin, args.node), args.cur)))

\* the builtin functions of #primary: token type, node, number of arguments
Builtins ==
    { <<"RANDOM", "Random", 0>>, <<"INPUT", "Input", 1>>, <<"INT", "Int", 1>>,
      <<"MIN", "Min", 2>>, <<"MAX", "Max", 2>>, <<"ABS", "Abs", 1>>,
      <<"FLOOR", "Floor", 1>>, <<"CEIL", "Ceil", 1>>, <<"LERP", "Lerp", 3>> }

\* a parser whose #primary, finding no expression, returns none and goes on
emptyExpression(toks, cur) == Parsed(NoNode, cur)

\* the end of Parser.#primary: no case matched
missingExpression(toks, cur) == Thrown("Missing expression", peekLine(toks, cur))

primary(toks, cur) ==
    LET type == IF parserIsAtEnd(toks, cur) THEN "EOF" ELSE parserPeek(toks, cur).type
    IN  CASE type = "FALSE" -> Parsed(Literal(Bool(FALSE)), cur + 1)
          [] type = "TRUE" -> Parsed(Literal(Bool(TRUE)), cur + 1)
          [] type = "NULL" -> Parsed(Literal(Null), cur + 1)
          [] type \in {"STRING", "NUMBER"} ->
                Parsed(Literal(previous(toks, cur + 1).literal), cur + 1)
          [] type = "IDENTIFIER" -> Parsed(Variable(previous(toks, cur + 1)), cur + 1)
          [] type = "LEFT_P" ->
                Bind(expression(toks, cur + 1), LAMBDA inner :
                Bind(consume(toks, inner.cur, "RIGHT_P", "Missing enclosing parenthesis",
                             peekLine(toks, inner.cur)),
                     LAMBDA close : Parsed(Grouping(inner.node), close.cur)))
          [] type \in {builtin[1] : builtin \in Builtins} ->
                LET builtin == CHOOSE builtin \in Builtins : builtin[1] = type
                IN  call(toks, cur + 1, builtin[2], builtin[3])
          [] type = "MOUSEX" -> Parsed(Call("MouseX", <<>>), cur + 1)
          [] type = "MOUSEY" -> Parsed(Call("MouseY", <<>>), cur + 1)
          [] OTHER -> missingExpression(toks, cur)

RECURSIVE unary(_, _)
unary(toks, cur) ==
    IF matches(toks, cur, {"NOT", "MINUS"})
    THEN Bind(unary(toks, cur + 1),
              LAMBDA right : Parsed(Unary(previous(toks, cur + 1), right.node), right.cur))
    ELSE primary(toks, cur)

\* The six levels of binary operators have one shape:
\*     expression = next(); while (match(...)) { operator = previous();
\*         right = next(); expression = new BinaryExpression(expression, operator, right) }
\* The loop of a level is entered before each operand: left and operator are
\* the expression so far and the operator matched behind it (NoNode before
\* the first operand), cur is where the operand starts.
Joined(left, operator, right) ==
    IF left.k = "null" THEN right
    ELSE IF operator.type \in {"OR", "AND"} THEN Logical(left, operator, right)
    ELSE Binary(left, operator, right)

RECURSIVE factorLoop(_, _, _, _)
factorLoop(toks, cur, left, operator) ==
    Bind(unary(toks, cur), LAMBDA right :
         IF matches(toks, right.cur, {"SLASH", "STAR"})
         THEN factorLoop(toks, right.cur + 1, Joined(left, operator, right.node),
                         previous(toks, right.cur + 1))
         ELSE Parsed(Joined(left, operator, right.node), right.cur))

factor(toks, cur) == factorLoop(toks, cur, NoNode, NoNode)

\* the loop of #term taking the multiplicative operators too: one level for
\* + - * /
RECURSIVE termLoopFlat(_, _, _, _)
termLoopFlat(toks, cur, left, operator) ==
    Bind(unary(toks, cur), LAMBDA right :
         IF matches(toks, right.cur, {"MINUS", "PLUS", "SLASH", "STAR"})
         THEN termLoopFlat(toks, right.cur + 1, Joined(left, operator, right.node),
                           previous(toks, right.cur + 1))
         ELSE Parsed(Joined(left, operator, right.node), right.cur))

RECURSIVE termLoop(_, _, _, _)
termLoop(toks, cur, left, operator) ==
    Bind(factor(toks, cur), LAMBDA right :
         IF matches(toks, right.cur, {"MINUS", "PLUS"})
         THEN termLoop(toks, right.cur + 1, Joined(left, operator, right.node),
                       previous(toks, right.cur + 1))
         ELSE Parsed(Joined(left, operator, right.node), right.cur))

term(toks, cur) == termLoop(toks, cur, NoNode, NoNode)

RECURSIVE comparisonLoop(_, _, _, _)
comparisonLoop(toks, cur, left, operator) ==
    Bind(term(toks, cur), LAMBDA right :
         IF matches(toks, right.cur, {"GREATER", "GREATER_EQUAL", "LESS", "LESS_EQUAL"})
         THEN comparisonLoop(toks, right.cur + 1, Joined(left, operator, right.node),
                             previous(toks, right.cur + 1))
         ELSE Parsed(Joined(left, operator, right.node), right.cur))

comparison(toks, cur) == comparisonLoop(toks, cur, NoNode, NoNode)

RECURSIVE equalityLoop(_, _, _, _)
equalityLoop(toks, cur, left, operator) ==
    Bind(comparison(toks, cur), LAMBDA right :
         IF matches(toks, right.cur, {"NOT_EQUAL", "EQUAL_EQUAL"})
         THEN equalityLoop(toks, right.cur + 1, Joined(left, operator, right.node),
                           previous(toks, right.cur + 1))
         ELSE Parsed(Joined(left, operator, right.node), right.cur))

equality(toks, cur) == equalityLoop(toks, cur, NoNode, NoNode)

RECURSIVE andLoop(_, _, _, _)
andLoop(toks, cur, left, operator) ==
    Bind(equality(toks, cur), LAMBDA right :
         IF matches(toks, right.cur, {"AND"})
         THEN andLoop(toks, right.cur + 1, Joined(left, operator, right.node),
                      previous(toks, right.cur + 1))
         ELSE Parsed(Joined(left, operator, right.node), right.cur))

and(toks, cur) == andLoop(toks, cur, NoNode, NoNode)

RECURSIVE orLoop(_, _, _, _)
orLoop(toks, cur, left, operator) ==
    Bind(and(toks, cur), LAMBDA right :
         IF matches(toks, right.cur, {"OR"})
         THEN orLoop(toks, right.cur + 1, Joined(left, operator, right.node),
                     previous(toks, right.cur + 1))
         ELSE Parsed(Joined(left, operator, right.node), right.cur))

or(toks, cur) == orLoop(toks, cur, NoNode, NoNode)

RECURSIVE assignment(_, _)
assignment(toks, cur) ==
    Bind(or(toks, cur), LAMBDA target :
         IF ~matches(toks, target.cur, {"EQUAL"}) THEN target
         ELSE Bind(assignment(toks, target.cur + 1), LAMBDA value :
                   IF target.node.k = "Variable"
                   THEN Parsed(Assignment(target.node.name, value.node), value.cur)
                   ELSE Thrown("Invalid assignment target", 0)))

expression(toks, cur) == assignment(toks, cur)

-----------------------------------------------------------------------------
(* Parser: statements *)

\* A statement node: its kind k, its expressions (exprs, in the order of the
\* constructor's arguments; NoNode for one that is null), its name token (LET)
\* and its statement lists.
Statement(k, exprs) ==
    [k |-> k, exprs |-> exprs, name |-> NoNode, body |-> <<>>, elseBranch |-> <<>>,
     clauses |-> <<>>]
Let(name, initializer) == [Statement("Let", <<initializer>>) EXCEPT !.name = name]
Block(k, exprs, body) == [Statement(k, exprs) EXCEPT !.body = body]
If(condition, ifBranch, elseBranch) ==
    [Statement("If", <<condition>>) EXCEPT !.body = ifBranch, !.elseBranch = elseBranch]
For(body, initializer, condition, increment) ==
    [Statement("For", <<condition>>) EXCEPT !.body = body,
                                            !.clauses = <<initializer, increment>>]

RECURSIVE declaration(_, _)

\* n expressions separated by commas: expression (consume(COMMA) expression)*
RECURSIVE expressions(_, _, _, _)
expressions(toks, cur, n, done) ==
    IF Len(done) = n THEN Parsed(done, cur)
    ELSE Bind(IF done = <<>> THEN Parsed(NoNode, cur)
              ELSE consume(toks, cur, "COMMA", "Missing comma", peekLine(toks, cur)),
              LAMBDA sep :
         Bind(expression(toks, sep.cur),
              LAMBDA expr : expressions(toks, expr.cur, n, Append(done, expr.node))))

\* a statement that is its keyword and n comma-separated expressions
simpleStatement(toks, cur, k, n) ==
    Bind(expressions(toks, cur, n, <<>>),
         LAMBDA exprs : Parsed(Statement(k, exprs.node), exprs.cur))

\* the expression a statement requires to start with one of the token types
\* (BAR, GAIN, BPM, TYPE, PLAY, STOP, SPRITE, SONG), or the error thrown
required(toks, cur, types, message) ==
    IF parserPeek(toks, cur).type \in types THEN expression(toks, cur)
    ELSE Thrown(message, 0)

namedStatement(toks, cur, k, types, message) ==
    Bind(required(toks, cur, types, message),
         LAMBDA expr : Parsed(Statement(k, <<expr.node>>), expr.cur))

\* new Parser(tokens)
NewParser(tokens) == [tokens |-> tokens, current |-> 0]

\* while (!check(stop) && !isAtEnd()) statements.push(declaration())
RECURSIVE declarations(_, _, _, _)
declarations(toks, cur, stops, done) ==
    IF matches(toks, cur, stops) \/ parserIsAtEnd(toks, cur) THEN Parsed(done, cur)
    ELSE Bind(declaration(toks, cur),
              LAMBDA next : declarations(toks, next.cur, stops, Append(done, next.node)))

block(toks, cur) ==
    Bind(declarations(toks, cur, {"END"}, <<>>), LAMBDA body :
    Bind(consume(toks, body.cur, "END", "Expected 'END' after block.", 0),
         LAMBDA end : Parsed(body.node, end.cur)))

\* a block statement of kind k whose head left the parser at cur
blockStatement(toks, cur, k, exprs) ==
    Bind(block(toks, cur), LAMBDA body : Parsed(Block(k, exprs, body.node), body.cur))

varDeclaration(toks, cur) ==
    Bind(consume(toks, cur, "IDENTIFIER", "Expected variable name.", 0), LAMBDA name :
    Bind(IF matches(toks, name.cur, {"EQUAL"}) THEN expression(toks, name.cur + 1)
         ELSE Parsed(NoNode, name.cur),
         LAMBDA initializer : Parsed(Let(name.node, initializer.node), initializer.cur)))

\* this.#match(LEFT_P) / this.#match(RIGHT_P), whose result is not looked at
skip(toks, cur, type) == IF matches(toks, cur, {type}) THEN cur + 1 ELSE cur

ifStatement(toks, cur) ==
    Bind(expression(toks, skip(toks, cur, "LEFT_P")), LAMBDA condition :
    Bind(consume(toks, skip(toks, condition.cur, "RIGHT_P"), "THEN",
                 "Expected 'THEN' to start 'IF' statement", 0), LAMBDA then :
    Bind(declarations(toks, then.cur, {"END", "ELSE"}, <<>>), LAMBDA ifBranch :
    Bind(IF matches(toks, ifBranch.cur, {"ELSE"})
         THEN declarations(toks, ifBranch.cur + 1, {"END"}, <<>>)
         ELSE Parsed(<<>>, ifBranch.cur), LAMBDA elseBranch :
    Bind(consume(toks, elseBranch.cur, "END", "Expected 'END' to end 'IF' statement", 0),
         LAMBDA end :
             Parsed(If(condition.node, ifBranch.node, elseBranch.node), end.cur))))))

whileBlock(toks, cur) ==
    Bind(expression(toks, skip(toks, cur, "LEFT_P")), LAMBDA condition :
    Bind(consume(toks, skip(toks, condition.cur, "RIGHT_P"), "THEN",
                 "Expected 'THEN' to start 'WHILE' block", 0), LAMBDA then :
         blockStatement(toks, then.cur, "While", <<condition.node>>)))

forBlock(toks, cur) ==
    Bind(declaration(toks, skip(toks, cur, "LEFT_P")), LAMBDA initializer :
    Bind(consume(toks, initializer.cur, "COLON", "Missing colon: [:]", 0), LAMBDA colon1 :
    Bind(expression(toks, colon1.cur), LAMBDA condition :
    Bind(consume(toks, condition.cur, "COLON", "Missing colon: [:]", 0), LAMBDA colon2 :
    Bind(declaration(toks, colon2.cur), LAMBDA increment :
    Bind(consume(toks, skip(toks, increment.cur, "RIGHT_P"), "THEN",
                 "Expected 'THEN' to start 'FOR' block", 0), LAMBDA then :
    Bind(block(toks, then.cur), LAMBDA body :
         Parsed(For(body.node, initializer.node, condition.node, increment.node),
                body.cur))))))))

\* SPRITE and SONG require a name, FRAME takes one if there is one, SHEET
\* takes none
namedBlock(toks, cur, k) ==
    Bind(IF parserPeek(toks, cur).type \in {"STRING", "IDENTIFIER"}
         THEN Bind(expression(toks, cur), LAMBDA name : Parsed(<<name.node>>, name.cur))
         ELSE IF k = "Sprite" THEN Thrown("SPRITE must have a name", 0)
         ELSE IF k = "Song" THEN Thrown("SONG must have a name", 0)
         ELSE Parsed(<<NoNode>>, cur),
         LAMBDA name : blockStatement(toks, name.cur, k, name.node))

spriteBlock(toks, cur) == namedBlock(toks, cur, "Sprite")
frameBlock(toks, cur) == namedBlock(toks, cur, "Frame")
songBlock(toks, cur) == namedBlock(toks, cur, "Song")
sheetBlock(toks, cur) == blockStatement(toks, cur, "Sheet", <<>>)

\* the statements of #statement that are a keyword and a fixed number of
\* comma-separated expressions: token type, node, number of expressions
SimpleStatements ==
    { <<"DEBUG", "Debug", 1>>, <<"PRINT", "Print", 1>>, <<"WINDOW", "Window", 2>>,
      <<"COLOR", "Color", 1>>, <<"FILL", "Fill", 4>>, <<"TEXT", "Text", 3>>,
      <<"SLEEP", "Sleep", 1>>, <<"SIZE", "Size", 2>>, <<"DRAW", "Draw", 4>>,
      <<"COLORDATA", "ColorData", 2>>, <<"PIXELDATA", "PixelData", 1>>,
      <<"LOOP", "Loop", 1>> }

\* those that are a keyword and one expression, required to start with a
\* string or identifier (a number or identifier for GAIN and BPM)
NamedStatements ==
    { <<"BAR", "Bar", {"STRING", "IDENTIFIER"}, "BAR must have a bar">>,
      <<"GAIN", "Gain", {"NUMBER", "IDENTIFIER"}, "GAIN must have a number">>,
      <<"BPM", "Bpm", {"NUMBER", "IDENTIFIER"}, "BPM must have a number">>,
      <<"TYPE", "Type", {"STRING", "IDENTIFIER"}, "TYPE must have a type">>,
      <<"PLAY", "Play", {"STRING", "IDENTIFIER"}, "PLAY must have a songName">>,
      <<"STOP", "Stop", {"STRING", "IDENTIFIER"}, "STOP must have a songName">> }

statement(toks, cur) ==
    LET type == IF parserIsAtEnd(toks, cur) THEN "EOF" ELSE parserPeek(toks, cur).type
    IN  CASE type = "FILL" /\ matches(toks, cur + 1, {"ALL"}) ->
                Parsed(Statement("Fill", <<>>), cur + 2)
          [] type \in {form[1] : form \in NamedStatements} ->
                LET form == CHOOSE form \in NamedStatements : form[1] = type
                IN  namedStatement(toks, cur + 1, form[2], form[3], form[4])
          [] type = "THEN" -> blockStatement(toks, cur + 1, "Block", <<>>)
          [] type = "IF" -> ifStatement(toks, cur + 1)
          [] type = "WHILE" -> whileBlock(toks, cur + 1)
          [] type = "FOR" -> forBlock(toks, cur + 1)
          [] type = "SPRITE" -> spriteBlock(toks, cur + 1)
          [] type = "FRAME" -> frameBlock(toks, cur + 1)
          [] type = "SONG" -> songBlock(toks, cur + 1)
          [] type = "SHEET" -> sheetBlock(toks, cur + 1)
          [] OTHER ->
                LET form == IF type \in {simple[1] : simple \in SimpleStatements}
                            THEN CHOOSE simple \in SimpleStatements : simple[1] = type
                            ELSE <<type, "Expression", 1>>
                IN  simpleStatement(toks, IF form[2] = "Expression" THEN cur ELSE cur + 1,
                                    form[2], form[3])

declaration(toks, cur) ==
    IF matches(toks, cur, {"LET"}) THEN varDeclaration(toks, cur + 1)
    ELSE statement(toks, cur)

\* Parser.parse: while (!isAtEnd()) statements.push(declaration())
parse(toks) == declarations(toks, 0, {}, <<>>)

-----------------------------------------------------------------------------
(* Environment *)

EmptyMap == [x \in {} |-> Null]

\* Map.prototype.set
Put(map, key, value) ==
    [x \in DOMAIN map \cup {key} |-> IF x = key THEN value ELSE map[x]]

\* new Sprite()
NewSprite ==
    [sizeX |-> Undefined, sizeY |-> Undefined, frames |-> <<>>, frameMap |-> EmptyMap,
     frameIndex |-> -1]

\* new Frame(frameName)
NewFrame(frameName) == [frameName |-> frameName, colorData |-> EmptyMap, pixelData |-> <<>>]

\* new Environment(enclosing).  The chain of live environments is the sequence
\* envs, root first: the enclosing environment of envs[n] is envs[n - 1], and
\* the environment a statement runs in is the last one.
NewEnvironment ==
    [values |-> EmptyMap, sprites |-> EmptyMap, currentSpriteName |-> Str(<<>>),
     songs |-> EmptyMap, currentSongName |-> Str(<<>>)]

\* The environment of the chain, searching outwards from the innermost, whose
\* table has the key: its index, or 0 when none has.
RECURSIVE Holder(_, _, _, _)
Holder(chain, n, table, key) ==
    IF n = 0 THEN 0
    ELSE IF key \in DOMAIN chain[n][table] THEN n
    ELSE Holder(chain, n - 1, table, key)

define(chain, name, value) ==
    [chain EXCEPT ![Len(chain)].values = Put(@, name, value)]

\* Environment.get: the value, or the error thrown at the root
get(chain, name) ==
    LET n == Holder(chain, Len(chain), "values", name.lexeme)
    IN  IF n = 0 THEN [err |-> Error("Undefined variable", 0), value |-> Undefined]
        ELSE [err |-> NoError, value |-> chain[n].values[name.lexeme]]

\* assign that creates the variable at the root instead of throwing
assignOrDefine(chain, name, value) ==
    LET n == Holder(chain, Len(chain), "values", name.lexeme)
    IN  [err |-> NoError,
         envs |-> [chain EXCEPT ![IF n = 0 THEN 1 ELSE n].values = Put(@, name.lexeme, value)]]

\* Environment.assign: the chain after it, or the error thrown at the root
assign(chain, name, value) ==
    LET n == Holder(chain, Len(chain), "values", name.lexeme)
    IN  IF n = 0 THEN [err |-> Error("Undefined variable", 0), envs |-> chain]
        ELSE [err |-> NoError, envs |-> [chain EXCEPT ![n].values = Put(@, name.lexeme, value)]]

\* the getter currentSprite: the index of the environment whose own
\* currentSpriteName names one of its own sprites, innermost first, or 0
RECURSIVE currentSprite(_, _)
currentSprite(chain, n) ==
    IF n = 0 THEN 0
    ELSE IF chain[n].currentSpriteName \in DOMAIN chain[n].sprites THEN n
    ELSE currentSprite(chain, n - 1)

addNewSprite(chain, name) ==
    [chain EXCEPT ![Len(chain)].currentSpriteName = name,
                  ![Len(chain)].sprites = Put(@, name, NewSprite)]

resetSprite(chain) == [chain EXCEPT ![Len(chain)].currentSpriteName = Str(<<>>)]

\* The songs table of an environment gives, for a name, the place of the Song
\* object among the songs created so far.  The getter currentSong: the index
\* of the environment whose own currentSongName names one of its own songs,
\* innermost first, or 0
RECURSIVE currentSong(_, _)
currentSong(chain, n) ==
    IF n = 0 THEN 0
    ELSE IF chain[n].currentSongName \in DOMAIN chain[n].songs THEN n
    ELSE currentSong(chain, n - 1)

\* addNewSong, the new Song being the one created at place song
addNewSong(chain, name, song) ==
    [chain EXCEPT ![Len(chain)].currentSongName = name,
                  ![Len(chain)].songs = Put(@, name, song)]

\* Environment.getSong: the index of the environment holding the song,
\* innermost first, or 0 where the root throws
getSong(chain, name) == Holder(chain, Len(chain), "songs", name)

resetSong(chain) == [chain EXCEPT ![Len(chain)].currentSongName = Str(<<>>)]

-----------------------------------------------------------------------------
(* Expressions *)

\* isTruthy that takes zero and the empty string for false, as JavaScript does
isTruthyLikeJavaScript(object) ==
    /\ object.t \notin {"null", "undefined"}
    /\ object # Bool(FALSE)
    /\ object # Num(0)
    /\ object # Str(<<>>)

isTruthy(object) ==
    IF object.t \in {"null", "undefined"} THEN FALSE
    ELSE IF object.t = "bool" THEN object.v
    ELSE TRUE

\* typeof value == 'number'
isNumber(value) == value.t \in {"num", "frac"}

isString(value) == value.t = "str"

\* the decimal digits of a natural number
RECURSIVE DigitsOf(_)
DigitsOf(n) == IF n < 10 THEN <<DigitChar(n)>> ELSE Append(DigitsOf(n \div 10), DigitChar(n % 10))

\* `${value}` of a number
NumberToString(value) ==
    IF value.t = "frac" THEN value.v
    ELSE IF value.v < 0 THEN <<"-">> \o DigitsOf(-value.v)
    ELSE DigitsOf(value.v)

\* A number that is no integer (a quotient, a literal with a fraction): the
\* model computes with integers and keeps such a result only as "frac".
NonInteger == [t |-> "frac", v |-> <<>>]

Returned(value) == [err |-> NoError, value |-> value]
Raised(message) == [err |-> Error(message, 0), value |-> Undefined]

\* '+' without the two mixed cases: a number and a string add to null
plusSameTypeOnly(left, right) ==
    IF left.t = "num" /\ right.t = "num" THEN Returned(Num(left.v + right.v))
    ELSE IF isString(left) /\ isString(right) THEN Returned(Str(left.v \o right.v))
    ELSE Returned(Null)

\* the PLUS case of BinaryExpression.interpret
plus(left, right) ==
    IF isNumber(left) /\ isNumber(right)
    THEN Returned(IF left.t = "num" /\ right.t = "num" THEN Num(left.v + right.v)
                  ELSE NonInteger)
    ELSE IF isString(left) /\ isString(right) THEN Returned(Str(left.v \o right.v))
    ELSE IF isString(left) /\ isNumber(right)
    THEN Returned(Str(left.v \o NumberToString(right)))
    ELSE IF isNumber(left) /\ isString(right)
    THEN Returned(Str(NumberToString(left) \o right.v))
    ELSE Returned(Null)

\* BinaryExpression.#isEqual
isEqual(a, b) ==
    IF a.t \in {"null", "undefined"} /\ b.t \in {"null", "undefined"} THEN TRUE
    ELSE IF a.t \in {"null", "undefined"} THEN FALSE
    ELSE a = b

\* the cases of BinaryExpression.interpret that call #checkNumberOperands
arithmetic(type, left, right) ==
    IF ~(isNumber(left) /\ isNumber(right)) THEN Raised("Operands must be numbers")
    ELSE IF left.t = "frac" \/ right.t = "frac"
    THEN IF type \in {"MINUS", "STAR", "SLASH"} THEN Returned(NonInteger)
         ELSE Raised("comparison of non-integers: outside the model")
    ELSE CASE type = "MINUS" -> Returned(Num(left.v - right.v))
           [] type = "STAR" -> Returned(Num(left.v * right.v))
           [] type = "SLASH" ->
                Returned(IF right.v # 0 /\ left.v % right.v = 0
                         THEN Num(left.v \div right.v) ELSE NonInteger)
           [] type = "GREATER" -> Returned(Bool(left.v > right.v))
           [] type = "GREATER_EQUAL" -> Returned(Bool(left.v >= right.v))
           [] type = "LESS" -> Returned(Bool(left.v < right.v))
           [] type = "LESS_EQUAL" -> Returned(Bool(left.v <= right.v))

\* the switch of BinaryExpression.interpret
binary(type, left, right) ==
    CASE type = "PLUS" -> plus(left, right)
      [] type = "EQUAL_EQUAL" -> Returned(Bool(isEqual(left, right)))
      [] type = "NOT_EQUAL" -> Returned(Bool(~isEqual(left, right)))
      [] OTHER -> arithmetic(type, left, right)

\* the switch of UnaryExpression.interpret
unaryOp(type, right) ==
    CASE type = "MINUS" ->
            IF ~isNumber(right) THEN Raised("Operand must be a number")
            ELSE Returned(IF right.t = "num" THEN Num(-right.v) ELSE NonInteger)
      [] type = "NOT" -> Returned(Bool(~isTruthy(right)))
      [] OTHER -> Returned(Null)

\* Expression.interpret(environment): the value and the chain it leaves (an
\* assignment changes it), or the error thrown.  The builtin calls (RANDOM,
\* INPUT, INT, MIN, MAX, ABS, FLOOR, CEIL, LERP, MOUSEX, MOUSEY) read the host
\* and are not evaluated by the model.
Value(value, chain) == [err |-> NoError, value |-> value, envs |-> chain]
Throw(err, chain) == [err |-> err, value |-> Undefined, envs |-> chain]

\* the value a case of a switch computed, or the error it threw
Finished(result, chain) ==
    IF result.err # NoError THEN Throw(result.err, chain) ELSE Value(result.value, chain)

\* environment.assign(this.name, value); return null
Assigned(assigned) ==
    IF assigned.err # NoError THEN Throw(assigned.err, assigned.envs)
    ELSE Value(Null, assigned.envs)

\* a logical operator that always goes on to its right operand
alwaysRight(type, leftValue) == FALSE

\* LogicalExpression.interpret: OR returns a truthy left value, AND a falsy one
returnsLeft(type, leftValue) ==
    IF type = "OR" THEN isTruthy(leftValue) ELSE ~isTruthy(leftValue)

RECURSIVE interpret(_, _)
interpret(node, chain) ==
    CASE node.k = "Literal" -> Value(node.value, chain)
      [] node.k = "Grouping" -> interpret(node.expr, chain)
      [] node.k = "Variable" -> Finished(get(chain, node.name), chain)
      [] node.k = "Assignment" ->
            Bind(interpret(node.value, chain), LAMBDA value :
                 Assigned(assign(value.envs, node.name, value.value)))
      [] node.k = "Unary" ->
            Bind(interpret(node.right, chain), LAMBDA right :
                 Finished(unaryOp(node.token.type, right.value), right.envs))
      [] node.k = "Binary" ->
            Bind(interpret(node.left, chain), LAMBDA left :
            Bind(interpret(node.right, left.envs), LAMBDA right :
                 Finished(binary(node.operator.type, left.value, right.value), right.envs)))
      [] node.k = "Logical" ->
            Bind(interpret(node.left, chain), LAMBDA left :
                 IF returnsLeft(node.operator.type, left.value) THEN left
                 ELSE interpret(node.right, left.envs))
      [] node.k = "null" -> Throw(Error("TypeError", 0), chain)
      [] OTHER -> Throw(Error("builtin call: outside the model", 0), chain)

-----------------------------------------------------------------------------
(* Statements that finish without suspending *)

\* What a statement reads and writes: the environment chain, the canvas and
\* its 2D context (ctx.exists once WINDOW has acquired it), what the print hook
\* and console.log were called with, and the fillRect calls, in order; err is
\* the error the statement threw.
State(chain, context, hook, console, rects, heap, plays) ==
    [err |-> NoError, envs |-> chain, ctx |-> context, printed |-> hook,
     debugged |-> console, calls |-> rects, songs |-> heap, tasks |-> plays]

TypeError == Error("TypeError", 0)

\* the fill style of a 2D context whose canvas has just been resized
Black == <<"#", "0", "0", "0", "0", "0", "0">>

\* const value = ...: what follows is given the value
With(value, Rest(_)) == Rest(value)

\* the values of the expressions, evaluated left to right until one throws
RECURSIVE interpretAll(_, _, _)
interpretAll(exprs, chain, values) ==
    IF Len(values) = Len(exprs) THEN [err |-> NoError, values |-> values, envs |-> chain]
    ELSE With(interpret(exprs[Len(values) + 1], chain), LAMBDA next :
              IF next.err # NoError
              THEN [err |-> next.err, values |-> values, envs |-> next.envs]
              ELSE interpretAll(exprs, next.envs, Append(values, next.value)))

\* the state after the expressions were evaluated, with the error of the
\* first that threw
Evaluated(m, result) == [m EXCEPT !.err = result.err, !.envs = result.envs]

\* what follows the evaluation of a statement's expressions, unless one threw
Then(m, result, Rest(_)) == IF result.err # NoError THEN Evaluated(m, result) ELSE Rest(result)

\* throw err after the expressions left the chain
thrown(m, chain, err) == [m EXCEPT !.envs = chain, !.err = err]

ExpressionStatement(stmt, m) == Evaluated(m, interpret(stmt.exprs[1], m.envs))

LetStatement(stmt, m) ==
    Then(m, IF stmt.exprs[1].k = "null" THEN Value(Null, m.envs)
            ELSE interpret(stmt.exprs[1], m.envs),
         LAMBDA value :
             [m EXCEPT !.envs = define(value.envs, stmt.name.lexeme, value.value)])

DebugStatement(stmt, m) ==
    Then(m, interpret(stmt.exprs[1], m.envs), LAMBDA value :
         [m EXCEPT !.envs = value.envs, !.debugged = Append(@, value.value)])

\* PRINT that leaves the hook alone
printNothing(stmt, m) == Evaluated(m, interpret(stmt.exprs[1], m.envs))

PrintStatement(stmt, m) ==
    Then(m, interpret(stmt.exprs[1], m.envs), LAMBDA value :
         [m EXCEPT !.envs = value.envs, !.printed = Append(@, value.value)])

\* canvas.width = width: setting the canvas's width resets the context's fill
\* style
resized(m, width) == [m EXCEPT !.ctx.width = width, !.ctx.fillStyle = Str(Black)]

\* The context is acquired before the sizes are evaluated.
WindowStatement(stmt, m) ==
    Then([m EXCEPT !.ctx.exists = TRUE], interpret(stmt.exprs[1], m.envs), LAMBDA width :
    Then(resized([m EXCEPT !.ctx.exists = TRUE], width.value),
         interpret(stmt.exprs[2], width.envs), LAMBDA height :
         [resized([m EXCEPT !.ctx.exists = TRUE], width.value)
             EXCEPT !.envs = height.envs, !.ctx.height = height.value]))

ColorStatement(stmt, m) ==
    Then(m, interpret(stmt.exprs[1], m.envs), LAMBDA color :
         IF ~m.ctx.exists THEN thrown(m, color.envs, TypeError)
         ELSE [m EXCEPT !.envs = color.envs, !.ctx.fillStyle = color.value])

\* ctx.fillRect(x, y, w, h) with the fill style of the moment
fillRect(context, x, y, w, h) ==
    [x |-> x, y |-> y, w |-> w, h |-> h, color |-> context.fillStyle]

FillStatement(stmt, m) ==
    Then(m, interpretAll(stmt.exprs, m.envs, <<>>), LAMBDA args :
         IF ~m.ctx.exists THEN thrown(m, args.envs, TypeError)
         ELSE IF stmt.exprs = <<>>
         THEN [m EXCEPT !.calls = Append(@, fillRect(m.ctx, Num(0), Num(0),
                                                     m.ctx.width, m.ctx.height))]
         ELSE [m EXCEPT !.envs = args.envs,
                        !.calls = Append(@, fillRect(m.ctx, args.values[1], args.values[2],
                                                     args.values[3], args.values[4]))])

\* the sprite environment.currentSprite returns, held by environment n
spriteOf(chain, n) == chain[n].sprites[chain[n].currentSpriteName]

setSprite(chain, n, sprite) ==
    [chain EXCEPT ![n].sprites = Put(@, chain[n].currentSpriteName, sprite)]

SizeStatement(stmt, m) ==
    With(currentSprite(m.envs, Len(m.envs)), LAMBDA n :
         IF n = 0 THEN thrown(m, m.envs, Error("SIZE can only be used in SPRITE block", 0))
         ELSE Then(m, interpretAll(stmt.exprs, m.envs, <<>>), LAMBDA sizes :
                   [m EXCEPT !.envs = setSprite(sizes.envs, n,
                                 [spriteOf(sizes.envs, n) EXCEPT
                                     !.sizeX = sizes.values[1], !.sizeY = sizes.values[2]])]))

\* sprite.currentFrame, or that there is none (frames[frameIndex] is undefined)
hasCurrentFrame(sprite) == sprite.frameIndex + 1 \in DOMAIN sprite.frames

ColorDataStatement(stmt, m) ==
    Then(m, interpretAll(stmt.exprs, m.envs, <<>>), LAMBDA args :
    With(currentSprite(args.envs, Len(args.envs)), LAMBDA n :
         IF n = 0
         THEN thrown(m, args.envs, Error("COLORDATA can be used in SPRITE block", 0))
         ELSE With(spriteOf(args.envs, n), LAMBDA sprite :
                   IF ~hasCurrentFrame(sprite) THEN thrown(m, args.envs, TypeError)
                   ELSE [m EXCEPT !.envs = setSprite(args.envs, n,
                            [sprite EXCEPT !.frames[sprite.frameIndex + 1].colorData =
                                               Put(@, args.values[1], args.values[2])])])))

\* a > b of JavaScript for a number a: false unless b is a number below a
\* (undefined compares false with everything).  A bound that is no number
\* and not undefined is converted by JavaScript; the model reads it as
\* undefined.
exceeds(a, b) == b.t = "num" /\ a > b.v

\* the checks and the push of PIXELDATA on the current sprite
pushPixelData(m, chain, n, sprite, data) ==
    IF data.t \in {"null", "undefined"} THEN thrown(m, chain, TypeError)
    ELSE IF isString(data) /\ exceeds(Len(data.v), sprite.sizeX)
    THEN thrown(m, chain, Error("PIXELDATA exceeds SPRITE width", 0))
    ELSE IF ~hasCurrentFrame(sprite) THEN thrown(m, chain, TypeError)
    ELSE IF exceeds(Len(sprite.frames[sprite.frameIndex + 1].pixelData) + 1, sprite.sizeY)
    THEN thrown(m, chain, Error("PIXELDATA exceeds SPRITE height", 0))
    ELSE [m EXCEPT !.envs = setSprite(chain, n,
             [sprite EXCEPT !.frames[sprite.frameIndex + 1].pixelData = Append(@, data)])]

PixelDataStatement(stmt, m) ==
    Then(m, interpret(stmt.exprs[1], m.envs), LAMBDA data :
    With(currentSprite(data.envs, Len(data.envs)), LAMBDA n :
         IF n = 0
         THEN thrown(m, data.envs, Error("PIXELDATA can be used in SPRITE block", 0))
         ELSE pushPixelData(m, data.envs, n, spriteOf(data.envs, n), data.value)))

\* Environment.getSprite: the index of the environment holding the sprite,
\* innermost first, or 0 where the root throws
getSprite(chain, name) == Holder(chain, Len(chain), "sprites", name)

\* !color of JavaScript
not(value) ==
    \/ value.t \in {"null", "undefined"}
    \/ value = Bool(FALSE)
    \/ value = Num(0)
    \/ value = Str(<<>>)

\* the rectangle of cell (i, j) with rows and columns exchanged
cellTransposed(x, y, i, j, color) ==
    [x |-> Num(x + i * 4), y |-> Num(y + j * 4), w |-> Num(4), h |-> Num(4), color |-> color]

\* ctx.fillStyle = color; ctx.fillRect(x + j * 4, y + i * 4, 4, 4); the
\* canvas is taken to keep every colour as it is written
cell(x, y, i, j, color) ==
    [x |-> Num(x + j * 4), y |-> Num(y + i * 4), w |-> Num(4), h |-> Num(4), color |-> color]

\* frame.pixelData[i].length, undefined (no turn of the loop) unless a string
rowLength(row) == IF isString(row) THEN Len(row.v) ELSE 0

\* frame.colorData.get(char)
colorOf(frame, char) ==
    IF Str(<<char>>) \in DOMAIN frame.colorData THEN frame.colorData[Str(<<char>>)]
    ELSE Undefined

\* if (!color) continue; otherwise the rectangle of the cell
drawCell(x, y, i, j, color) == IF not(color) THEN <<>> ELSE <<cell(x, y, i, j, color)>>

\* the inner loop of DRAW from column j on, and the outer loop from row i on
RECURSIVE drawRow(_, _, _, _, _)
drawRow(frame, x, y, i, j) ==
    IF j >= rowLength(frame.pixelData[i + 1]) THEN <<>>
    ELSE drawCell(x, y, i, j, colorOf(frame, frame.pixelData[i + 1].v[j + 1]))
         \o drawRow(frame, x, y, i, j + 1)

RECURSIVE drawRows(_, _, _, _)
drawRows(frame, x, y, i) ==
    IF i >= Len(frame.pixelData) THEN <<>>
    ELSE drawRow(frame, x, y, i, 0) \o drawRows(frame, x, y, i + 1)

\* The frame DRAW selects: sprite.frames[frameSpec] for a number,
\* sprite.frameMap.get(frameSpec) for a string; 0 when it is null or undefined.
\* frames[k] of JavaScript is frames[k + 1] here, and the map gives k.
selectFrame(sprite, frameSpec) ==
    IF frameSpec.t = "num"
    THEN IF frameSpec.v + 1 \in DOMAIN sprite.frames THEN frameSpec.v + 1 ELSE 0
    ELSE IF isString(frameSpec) /\ frameSpec \in DOMAIN sprite.frameMap
    THEN sprite.frameMap[frameSpec] + 1
    ELSE 0

\* the context the loops of DRAW leave: its fill style is the colour of the
\* last cell painted
painted(context, rects) ==
    IF rects = <<>> THEN context ELSE [context EXCEPT !.fillStyle = rects[Len(rects)].color]

\* a DRAW that leaves the context as its loops left it
unrestored(before, after) == after

\* const colorBefore = ctx.fillStyle before the loops, ctx.fillStyle =
\* colorBefore after them
restored(before, after) == [after EXCEPT !.fillStyle = before.fillStyle]

\* the loops of DRAW over frame k of the sprite
drawFrame(m, chain, sprite, k, x, y) ==
    IF ~m.ctx.exists \/ k = 0 THEN thrown(m, chain, TypeError)
    ELSE IF x.t # "num" \/ y.t # "num"
    THEN thrown(m, chain, Error("coordinate that is no integer: outside the model", 0))
    ELSE With(drawRows(sprite.frames[k], x.v, y.v, 0), LAMBDA rects :
              [m EXCEPT !.envs = chain, !.calls = @ \o rects,
                        !.ctx = restored(m.ctx, painted(m.ctx, rects))])

\* The coordinates are added to numbers; the model draws at integers only.
DrawStatement(stmt, m) ==
    Then(m, interpretAll(stmt.exprs, m.envs, <<>>), LAMBDA args :
    With(getSprite(args.envs, args.values[3]), LAMBDA n :
         IF n = 0 THEN thrown(m, args.envs, Error("Undefined sprite", 0))
         ELSE With(args.envs[n].sprites[args.values[3]], LAMBDA sprite :
                   drawFrame(m, args.envs, sprite, selectFrame(sprite, args.values[4]),
                             args.values[1], args.values[2]))))

\* the statements above, by class
SimpleKinds ==
    {"Expression", "Let", "Debug", "Print", "Window", "Color", "Fill", "Size", "Draw",
     "ColorData", "PixelData"}

execute(stmt, m) ==
    CASE stmt.k = "Expression" -> ExpressionStatement(stmt, m)
      [] stmt.k = "Let" -> LetStatement(stmt, m)
      [] stmt.k = "Debug" -> DebugStatement(stmt, m)
      [] stmt.k = "Print" -> PrintStatement(stmt, m)
      [] stmt.k = "Window" -> WindowStatement(stmt, m)
      [] stmt.k = "Color" -> ColorStatement(stmt, m)
      [] stmt.k = "Fill" -> FillStatement(stmt, m)
      [] stmt.k = "Size" -> SizeStatement(stmt, m)
      [] stmt.k = "Draw" -> DrawStatement(stmt, m)
      [] stmt.k = "ColorData" -> ColorDataStatement(stmt, m)
      [] stmt.k = "PixelData" -> PixelDataStatement(stmt, m)
      [] OTHER -> [m EXCEPT !.err = Error("suspending statement as FOR clause: outside the model", 0)]

\* statement.interpret(environment) without await, as FOR calls its
\* initializer and its increment: what the statement did up to a throw stays,
\* and the throw rejects a promise nobody awaits
swallowed(stmt, m) == IF stmt.k \in SimpleKinds THEN [m EXCEPT !.err = NoError] ELSE m

unawaited(stmt, m) == swallowed(stmt, execute(stmt, m))

-----------------------------------------------------------------------------
(* Songs, sheets and notes *)

\* new Song(audioContext): no sheets, 120 beats per minute, no loop
NewSong == [sheets |-> <<>>, bpm |-> Num(120), loop |-> FALSE]

\* new Sheet(song): the gain is kept in hundredths (0.8 is 80); playing is
\* undefined, which the loop of play() reads as false, until play() sets it
NewSheet ==
    [bars |-> <<>>, notes |-> <<>>, gain |-> Num(80), type |-> Str(<<"s", "i", "n", "e">>),
     playing |-> FALSE]

\* new Note(note, sheet): note is the token, or undefined for new Note()
NewNote(note) == [note |-> note, length |-> 1]

Hold == <<"-", "-">>
Extend == <<".", ".">>

\* the characters String.prototype.trim removes, of those the model writes
TrimmedCharacters == {" ", "\t", "\r", "\n"}

RECURSIVE trim(_)
trim(text) ==
    IF text = <<>> THEN text
    ELSE IF Head(text) \in TrimmedCharacters THEN trim(Tail(text))
    ELSE IF text[Len(text)] \in TrimmedCharacters THEN trim(SubSeq(text, 1, Len(text) - 1))
    ELSE text

\* .replaceAll("\r", " ").replaceAll("\n", " ").replaceAll("\t", " ")
replaceAll(text) ==
    [k \in DOMAIN text |-> IF text[k] \in {"\r", "\n", "\t"} THEN " " ELSE text[k]]

\* text.split(" ") from character k on, word being the piece read so far: an
\* empty text gives one empty piece, and two spaces in a row an empty piece
RECURSIVE split(_, _, _)
split(text, k, word) ==
    IF k > Len(text) THEN <<word>>
    ELSE IF text[k] = " " THEN <<word>> \o split(text, k + 1, <<>>)
    ELSE split(text, k + 1, Append(word, text[k]))

\* previousNote.length++
lengthened(notes) == [notes EXCEPT ![Len(notes)].length = @ + 1]

\* one turn of the loop of Sheet.build over the pieces; '..' with no note
\* before it reads length of undefined and throws, the notes pushed so far
\* staying in the sheet
RECURSIVE buildNotes(_, _, _)
buildNotes(sheetNotes, k, notes) ==
    IF k > Len(sheetNotes) THEN [err |-> NoError, notes |-> notes]
    ELSE IF sheetNotes[k] = Hold
    THEN IF notes # <<>> /\ notes[Len(notes)].note = Str(Hold)
         THEN buildNotes(sheetNotes, k + 1, lengthened(notes))
         ELSE buildNotes(sheetNotes, k + 1, Append(notes, NewNote(Undefined)))
    ELSE IF sheetNotes[k] = Extend
    THEN IF notes = <<>> THEN [err |-> TypeError, notes |-> notes]
         ELSE buildNotes(sheetNotes, k + 1, lengthened(notes))
    ELSE buildNotes(sheetNotes, k + 1, Append(notes, NewNote(Str(sheetNotes[k]))))

\* Sheet.build: the notes of the bars are pushed after the notes the sheet has
build(sheet) == buildNotes(split(replaceAll(trim(sheet.bars)), 1, <<>>), 1, sheet.notes)

\* `${value}` of a template literal
ToText(value) ==
    CASE value.t = "str" -> value.v
      [] isNumber(value) -> NumberToString(value)
      [] value.t = "bool" ->
            IF value.v THEN <<"t", "r", "u", "e">> ELSE <<"f", "a", "l", "s", "e">>
      [] value.t = "null" -> <<"n", "u", "l", "l">>
      [] OTHER -> <<"u", "n", "d", "e", "f", "i", "n", "e", "d">>

\* environment.currentSong: the place of the Song among the songs, 0 for
\* undefined
songAt(chain, n) == IF n = 0 THEN 0 ELSE chain[n].songs[chain[n].currentSongName]

songOf(chain) == songAt(chain, currentSong(chain, Len(chain)))

\* a write to a field of currentSong.currentSheet, which is a TypeError when
\* there is no current song or it has no sheet
onSheet(m, chain, song, field, value) ==
    IF song = 0 THEN thrown(m, chain, TypeError)
    ELSE IF m.songs[song].sheets = <<>> THEN thrown(m, chain, TypeError)
    ELSE [m EXCEPT !.envs = chain,
                   !.songs[song].sheets[Len(m.songs[song].sheets)][field] = value]

\* a write to a field of environment.currentSong
onSong(m, chain, song, field, value) ==
    IF song = 0 THEN thrown(m, chain, TypeError)
    ELSE [m EXCEPT !.envs = chain, !.songs[song][field] = value]

\* currentSong.currentSheet is read before the misuse is looked for
barAdded(m, chain, song, text) ==
    IF song = 0 THEN thrown(m, chain, TypeError)
    ELSE IF m.songs[song].sheets = <<>> THEN thrown(m, chain, Error("BAR misuse", 0))
    ELSE [m EXCEPT !.envs = chain,
                   !.songs[song].sheets[Len(m.songs[song].sheets)].bars = @ \o text \o <<"\n">>]

BarStatement(stmt, m) ==
    Then(m, interpret(stmt.exprs[1], m.envs), LAMBDA bar :
         barAdded(m, bar.envs, songOf(bar.envs), ToText(bar.value)))

\* gain = gainValue / 100, kept in hundredths
GainStatement(stmt, m) ==
    Then(m, interpret(stmt.exprs[1], m.envs), LAMBDA gainValue :
         onSheet(m, gainValue.envs, songOf(gainValue.envs), "gain", gainValue.value))

BpmStatement(stmt, m) ==
    Then(m, interpret(stmt.exprs[1], m.envs), LAMBDA bpmValue :
         onSong(m, bpmValue.envs, songOf(bpmValue.envs), "bpm", bpmValue.value))

LoopStatement(stmt, m) ==
    Then(m, interpret(stmt.exprs[1], m.envs), LAMBDA loopValue :
         onSong(m, loopValue.envs, songOf(loopValue.envs), "loop", isTruthy(loopValue.value)))

TypeStatement(stmt, m) ==
    Then(m, interpret(stmt.exprs[1], m.envs), LAMBDA waveTypeValue :
         onSheet(m, waveTypeValue.envs, songOf(waveTypeValue.envs), "type",
                 waveTypeValue.value))

-----------------------------------------------------------------------------
(* Playback *)

\* A call of Sheet.play(): the sheet, the PLAY it belongs to, the index the
\* loop of play() holds, and where the call stands: "note" (awaiting the
\* sleep of the note at index - 1), "trailing" (awaiting sleep(5000)), "done"
\* (resolved) or "failed" (rejected).
\* stopped is history, kept for the properties: Song.stop() of its song has
\* been called while the call was in a note.
Task(song, sheet, play) ==
    [song |-> song, sheet |-> sheet, play |-> play, index |-> 0, state |-> "failed",
     stopped |-> FALSE]

\* if (this.note): the note has a pitch text
pitched(note) == isString(note.note) /\ note.note.v # <<>>

\* #getFrequency gives a number: a letter of noteOffsets and an octave digit;
\* otherwise the frequency is NaN and setting it throws
validPitch(text) ==
    /\ Len(text) >= 2
    /\ text[1] \in {"A", "B", "C", "D", "E", "F", "G", "a", "b", "c", "d", "e", "f", "g"}
    /\ text[2] \in Digits

sheetOf(m, task) == m.songs[task.song].sheets[task.sheet]

\* await this.notes[index++].play(), up to the sleep of the note
startNote(m, t, note) ==
    [m EXCEPT !.tasks[t].index = @ + 1,
              !.tasks[t].state = IF pitched(note) /\ ~validPitch(note.note.v) THEN "failed"
                                 ELSE "note"]

\* the test of while (this.playing), and what follows it
proceed(m, t) ==
    IF ~sheetOf(m, m.tasks[t]).playing THEN [m EXCEPT !.tasks[t].state = "trailing"]
    ELSE IF m.tasks[t].index + 1 > Len(sheetOf(m, m.tasks[t]).notes)
    THEN [m EXCEPT !.tasks[t].state = "failed"]
    ELSE startNote(m, t, sheetOf(m, m.tasks[t]).notes[m.tasks[t].index + 1])

\* The sleep of the note is over: a pitched note disconnects its gain node
\* from ctx.destination, ctx being the global 2D context (null before
\* WINDOW), and the loop of play() goes on.
noteEnded(m, t, sheet, song) ==
    IF pitched(sheet.notes[m.tasks[t].index]) /\ ~m.ctx.exists
    THEN [m EXCEPT !.tasks[t].state = "failed"]
    ELSE IF m.tasks[t].index = Len(sheet.notes)
    THEN IF song.loop THEN proceed([m EXCEPT !.tasks[t].index = 0], t)
         ELSE [m EXCEPT !.tasks[t].state = "trailing"]
    ELSE proceed(m, t)

\* Sheet.play() up to its first await: build() (a throw rejects the call),
\* playing = true, the first note
started(m, song, k, play, built) ==
    IF built.err # NoError
    THEN [m EXCEPT !.songs[song].sheets[k].notes = built.notes,
                   !.tasks = Append(@, Task(song, k, play))]
    ELSE proceed([m EXCEPT !.songs[song].sheets[k].notes = built.notes,
                           !.songs[song].sheets[k].playing = TRUE,
                           !.tasks = Append(@, Task(song, k, play))],
                 Len(m.tasks) + 1)

sheetPlay(m, song, k, play) == started(m, song, k, play, build(m.songs[song].sheets[k]))

\* Song.play() up to its await: sheet.play() of every sheet, in order
RECURSIVE songPlay(_, _, _, _)
songPlay(m, song, k, play) ==
    IF k > Len(m.songs[song].sheets) THEN m
    ELSE songPlay(sheetPlay(m, song, k, play), song, k + 1, play)

\* the calls of Sheet.play() made by the call of Song.play() numbered play
tasksOf(all, play) == {t \in DOMAIN all : all[t].play = play /\ all[t].sheet # 0}

\* a promise that is settled as soon as one of the sheets' promises is
promiseRace(all, play) ==
    IF \E t \in tasksOf(all, play) : all[t].state = "failed" THEN "failed"
    ELSE IF tasksOf(all, play) = {} \/ \E t \in tasksOf(all, play) : all[t].state = "done"
    THEN "done"
    ELSE "awaiting"

\* Promise.all(promises): rejected as soon as a sheet's play() is rejected,
\* resolved once every sheet's play() is resolved
promiseAll(all, play) ==
    IF \E t \in tasksOf(all, play) : all[t].state = "failed" THEN "failed"
    ELSE IF \A t \in tasksOf(all, play) : all[t].state = "done" THEN "done"
    ELSE "awaiting"

\* The call of Song.play() is kept with the calls of Sheet.play(), as the one
\* of sheet 0: "awaiting" Promise.all, "done" or "failed".
called(m, song, play) ==
    [m EXCEPT !.tasks = Append(@, [Task(song, 0, play) EXCEPT !.state = "awaiting"])]

\* await Promise.all(promises) in Song.play, after a step of its sheets
settle(m, play) ==
    [m EXCEPT !.tasks = [t \in DOMAIN @ |->
                            IF @[t].play = play /\ @[t].sheet = 0 /\ @[t].state = "awaiting"
                            THEN [@[t] EXCEPT !.state = promiseAll(m.tasks, play)]
                            ELSE @[t]]]

\* Song.stop()
songStop(m, song) ==
    [m EXCEPT !.songs[song].sheets = [k \in DOMAIN @ |-> [@[k] EXCEPT !.playing = FALSE]],
              !.tasks = [t \in DOMAIN @ |->
                            IF @[t].song = song /\ @[t].state = "note"
                            THEN [@[t] EXCEPT !.stopped = TRUE] ELSE @[t]]]

\* await song.play() instead: the rejection of a sheet that fails before its
\* first sleep is thrown by the statement
rejected(m, from) ==
    IF \E t \in from..Len(m.tasks) : m.tasks[t].state = "failed"
    THEN [m EXCEPT !.err = TypeError] ELSE m

playAwaited(stmt, m) ==
    Then(m, interpret(stmt.exprs[1], m.envs), LAMBDA name :
    With(getSong(name.envs, name.value), LAMBDA n :
         IF n = 0 THEN thrown(m, name.envs, Error("Undefined song", 0))
         ELSE rejected(settle(called(songPlay([m EXCEPT !.envs = name.envs],
                                              name.envs[n].songs[name.value], 1,
                                              Len(m.tasks) + 1),
                                     name.envs[n].songs[name.value], Len(m.tasks) + 1),
                              Len(m.tasks) + 1),
                       Len(m.tasks) + 1)))

\* song.play() is called and its promise dropped
PlayStatement(stmt, m) ==
    Then(m, interpret(stmt.exprs[1], m.envs), LAMBDA name :
    With(getSong(name.envs, name.value), LAMBDA n :
         IF n = 0 THEN thrown(m, name.envs, Error("Undefined song", 0))
         ELSE settle(called(songPlay([m EXCEPT !.envs = name.envs],
                                     name.envs[n].songs[name.value], 1, Len(m.tasks) + 1),
                            name.envs[n].songs[name.value], Len(m.tasks) + 1),
                     Len(m.tasks) + 1)))

StopStatement(stmt, m) ==
    Then(m, interpret(stmt.exprs[1], m.envs), LAMBDA name :
    With(getSong(name.envs, name.value), LAMBDA n :
         IF n = 0 THEN thrown(m, name.envs, Error("Undefined song", 0))
         ELSE songStop([m EXCEPT !.envs = name.envs], name.envs[n].songs[name.value])))

-----------------------------------------------------------------------------
(* Scanning any short source text *)

MaxSourceLen == 4

ScanAlphabet == {"a", "1", ".", "#", "\n", "\"", "@", "<", "="}

ScanSources == UNION {[1..n -> ScanAlphabet] : n \in 0..MaxSourceLen}

Idle ==
    /\ error = NoError
    /\ statements = <<>>
    /\ stack = <<>>
    /\ envs = <<>>
    /\ running = FALSE
    /\ ctx = [exists |-> FALSE, fillStyle |-> Str(Black), width |-> Undefined,
              height |-> Undefined]
    /\ printed = <<>>
    /\ debugged = <<>>
    /\ calls = <<>>
    /\ songs = <<>>
    /\ tasks = <<>>
    /\ host = <<>>
    /\ parser = NewParser(<<>>)

InitScan ==
    /\ pc = "scanTokens"
    /\ scanner \in {NewScanner(source) : source \in ScanSources}
    /\ Idle

\* one turn of the while loop of scanTokens; a throw ends the scan
ScanToken ==
    /\ pc = "scanTokens"
    /\ ~isAtEnd(scanner)
    /\ scanner' = scanLoop(scanner)
    /\ error' = scanner'.error
    /\ pc' = IF scanner'.error # NoError THEN "failed" ELSE "scanTokens"
    /\ UNCHANGED <<statements, stack, envs, running, ctx, printed, debugged, calls, songs, tasks, host, parser>>

\* the loop is over: the EOF token is pushed and the tokens are returned
ScanReturn ==
    /\ pc = "scanTokens"
    /\ isAtEnd(scanner)
    /\ scanner' = scanEnd(scanner)
    /\ pc' = "scanned"
    /\ UNCHANGED <<error, statements, stack, envs, running, ctx, printed, debugged, calls, songs, tasks, host, parser>>

NextScan == ScanToken \/ ScanReturn

SpecScan == InitScan /\ [][NextScan]_vars

-----------------------------------------------------------------------------
(* The lexical grammar of section 4.1, written over the text alone *)

Punctuation == {"(", ")", ":", ",", "-", "+", "/", "*", "!", "=", "<", ">", "#"}

Whitespace == {" ", "\r", "\t", "\n"}

\* Whether position i of the text lies in a '#' comment: a '#' read outside a
\* string literal, and what follows it up to but excluding the next newline.
\* mode is "code", "comment" or "string" at position k, scanning from 0.
RECURSIVE InComment(_, _, _, _)
InComment(text, i, k, mode) ==
    LET c == text[k + 1]
        here == IF mode = "code" /\ c = "#" THEN "comment"
                ELSE IF mode = "comment" /\ c = "\n" THEN "code"
                ELSE mode
        next == IF mode = "code" /\ c = "\"" THEN "string"
                ELSE IF mode = "string" /\ c = "\"" THEN "code"
                ELSE here
    IN  IF k = i THEN here = "comment" ELSE InComment(text, i, k + 1, next)

\* the text with every comment character replaced by a space
BlankComments(text) ==
    [k \in 1..Len(text) |-> IF InComment(text, k - 1, 0, "code") THEN " " ELSE text[k]]

\* The first lexical problem of the text from position i on, reading by the
\* grammar: "string" for a string literal with no closing quote, "char" for a
\* character that starts no token, "none" when the text has neither.
RECURSIVE LexProblem(_, _)
LexProblem(text, i) ==
    IF i >= Len(text) THEN "none"
    ELSE LET c == text[i + 1]
             upTo(stop) == SkipWhile(text, i + 1, stop)
             digits == SkipIn(text, i, Digits)
         IN  CASE c = "#" -> LexProblem(text, upTo({"\n"}))
               [] c = "\"" -> IF upTo({"\""}) >= Len(text) THEN "string"
                              ELSE LexProblem(text, upTo({"\""}) + 1)
               [] c \in Digits ->
                    IF charAt(text, digits) = "." /\ charAt(text, digits + 1) \in Digits
                    THEN LexProblem(text, SkipIn(text, digits + 1, Digits))
                    ELSE LexProblem(text, digits)
               [] c \in Letters \cup {"_"} ->
                    LexProblem(text, SkipIn(text, i, Letters \cup Digits \cup {"_"}))
               [] c \in Punctuation \cup Whitespace -> LexProblem(text, i + 1)
               [] OTHER -> "char"

\* C1: for every source text that scans without error, the returned token
\* sequence ends with an EOF token, holds no other EOF token, and holds no
\* token made from the characters of a '#' comment: it is the token sequence
\* of the same text with its comments blanked out.
C1_EndMarkerAndComments ==
    pc = "scanned" =>
        LET t == scanner.tokens
        IN  /\ Len(t) >= 1
            /\ t[Len(t)].type = "EOF"
            /\ \A k \in 1..(Len(t) - 1) : t[k].type # "EOF"
            /\ t = scanTokens(NewScanner(BlankComments(scanner.source))).tokens

\* a scan that returned tokens for a text holding a comment with a word in it
C1_Witness ==
    /\ pc = "scanned"
    /\ Len(scanner.tokens) >= 2
    /\ \E i \in 1..Len(scanner.source) :
        /\ scanner.source[i] = "a"
        /\ InComment(scanner.source, i - 1, 0, "code")

\* C2: the scan is never partial.  A text with an unterminated string literal
\* or with a character that starts no token makes the scan fail, with the
\* matching error carrying the scanner's current line, and no token sequence
\* (nothing ending in EOF) is returned; every other text is scanned to its end.
C2_NeverPartial ==
    LET problem == LexProblem(scanner.source, 0)
    IN  /\ (pc \in {"scanned", "failed"}) =>
              (pc = "failed" <=> problem # "none")
        /\ pc = "failed" =>
              /\ error.kind = (IF problem = "string" THEN "Unterminated string"
                               ELSE "Unexpected character.")
              /\ error.line = scanner.line
              /\ error.line >= 1
              /\ \A k \in 1..Len(scanner.tokens) : scanner.tokens[k].type # "EOF"
        /\ pc = "scanTokens" => error = NoError

\* a failed scan that had already built a token, for each of the two errors
C2_Witness ==
    /\ pc = "failed"
    /\ Len(scanner.tokens) >= 1
    /\ error.kind = "Unterminated string"
    /\ error.line = 2

-----------------------------------------------------------------------------
(* OneShot.run: the interpreter, one step per resumption *)

\* The statement lists being executed, outermost first.  An activation is the loop
\* over one list: the statement that owns it (node), the list and the
\* position of the next statement in it.
Activation(node, stmts) == [node |-> node, stmts |-> stmts, i |-> 1]

top == stack[Len(stack)]

\* the statement the innermost loop is about to interpret
current == top.stmts[top.i]

at(k) ==
    /\ pc = "interpret"
    /\ stack # <<>>
    /\ top.i <= Len(top.stmts)
    /\ current.k = k

\* the innermost list is exhausted and belongs to a statement of class k
after(k) ==
    /\ pc = "interpret"
    /\ stack # <<>>
    /\ top.i > Len(top.stmts)
    /\ top.node.k = k

machine == State(envs, ctx, printed, debugged, calls, songs, tasks)

\* the stack once the current statement has returned
advanced(frames) == [frames EXCEPT ![Len(frames)].i = @ + 1]

pop(frames) == SubSeq(frames, 1, Len(frames) - 1)

\* The step ends in state m with the given stack, or with the error m holds:
\* the error rejects run() through every await of the stack.
Resume(m, frames) ==
    /\ envs' = m.envs
    /\ ctx' = m.ctx
    /\ printed' = m.printed
    /\ debugged' = m.debugged
    /\ calls' = m.calls
    /\ songs' = m.songs
    /\ tasks' = m.tasks
    /\ error' = m.err
    /\ pc' = IF m.err # NoError THEN "failed" ELSE "interpret"
    /\ stack' = IF m.err # NoError THEN stack ELSE frames
    /\ UNCHANGED <<scanner, statements, running, host, parser>>

\* run(source) up to its first await: scan, parse, new Interpreter
Run ==
    /\ pc = "idle"
    /\ running' = TRUE
    /\ scanner' = scanTokens(scanner)
    /\ LET parsed == parse(scanner'.tokens)
           failure == IF scanner'.error # NoError THEN scanner'.error ELSE parsed.err
       IN  IF failure # NoError
           THEN /\ error' = failure
                /\ pc' = "failed"
                /\ UNCHANGED <<statements, stack, envs>>
           ELSE /\ statements' = parsed.node
                /\ stack' = <<Activation(Statement("Interpreter", <<>>), parsed.node)>>
                /\ envs' = <<NewEnvironment>>
                /\ pc' = "interpret"
                /\ error' = NoError
    /\ UNCHANGED <<ctx, printed, debugged, calls, songs, tasks, host, parser>>

\* await statement.interpret(environment) of a statement that runs to its end
\* in one step
ExecExpression ==
    at("Expression") /\ Resume(ExpressionStatement(current, machine), advanced(stack))

ExecLet ==
    at("Let") /\ Resume(LetStatement(current, machine), advanced(stack))

ExecDebug ==
    at("Debug") /\ Resume(DebugStatement(current, machine), advanced(stack))

ExecPrint ==
    at("Print") /\ Resume(PrintStatement(current, machine), advanced(stack))

ExecWindow ==
    at("Window") /\ Resume(WindowStatement(current, machine), advanced(stack))

ExecColor ==
    at("Color") /\ Resume(ColorStatement(current, machine), advanced(stack))

ExecFill ==
    at("Fill") /\ Resume(FillStatement(current, machine), advanced(stack))

ExecSize ==
    at("Size") /\ Resume(SizeStatement(current, machine), advanced(stack))

ExecDraw ==
    at("Draw") /\ Resume(DrawStatement(current, machine), advanced(stack))

ExecColorData ==
    at("ColorData") /\ Resume(ColorDataStatement(current, machine), advanced(stack))

ExecPixelData ==
    at("PixelData") /\ Resume(PixelDataStatement(current, machine), advanced(stack))

\* new Environment(environment)
child(m) == [m EXCEPT !.envs = Append(@, NewEnvironment)]

\* a finished executeBlock whose environment stays on the chain
keep(m) == m

\* the environment of a finished executeBlock is dropped
leave(m) == [m EXCEPT !.envs = pop(@)]

ExecBlock == at("Block") /\ Resume(child(machine), Append(stack, Activation(current, current.body)))

ExitBlock == after("Block") /\ Resume(leave(machine), advanced(pop(stack)))

\* The condition of IF is evaluated; the list it goes on with runs in the
\* environment of the IF.
ifStatementEnter(stmt, m, frames) ==
    With(interpret(stmt.exprs[1], m.envs), LAMBDA condition :
         Resume(Evaluated(m, condition),
                Append(frames, Activation(stmt, IF isTruthy(condition.value) THEN stmt.body
                                                ELSE stmt.elseBranch))))

ExecIf == at("If") /\ ifStatementEnter(current, machine, stack)

ExitIf == after("If") /\ Resume(machine, advanced(pop(stack)))

\* One test of a loop in state m, whose environment chain ends with the
\* loop's own environment: on a truthy condition while running, the body
\* starts in a new child environment; otherwise the loop statement returns.
loop(stmt, m, frames) ==
    With(interpret(stmt.exprs[1], m.envs), LAMBDA condition :
         IF condition.err = NoError /\ isTruthy(condition.value) /\ running
         THEN Resume(child(Evaluated(m, condition)), Append(frames, Activation(stmt, stmt.body)))
         ELSE Resume(Evaluated(m, condition), advanced(frames)))

ExecWhile == at("While") /\ loop(current, machine, stack)

NextWhile == after("While") /\ loop(top.node, leave(machine), pop(stack))

\* a FOR whose clauses are given an environment of their own
headed(m) == child(m)

\* initializer.interpret(environment), increment.interpret(environment): the
\* clauses are given the environment the FOR itself was given
enclosing(m) == m

ExecFor ==
    /\ at("For")
    /\ loop(current, unawaited(current.clauses[1], enclosing(machine)), stack)

NextFor ==
    /\ after("For")
    /\ loop(top.node, unawaited(top.node.clauses[2], enclosing(leave(machine))), pop(stack))

spriteBlockEnter(stmt, m) ==
    Then(m, interpret(stmt.exprs[1], m.envs), LAMBDA name :
         child([m EXCEPT !.envs = addNewSprite(name.envs, name.value)]))

ExecSprite ==
    /\ at("Sprite")
    /\ Resume(spriteBlockEnter(current, machine), Append(stack, Activation(current, current.body)))

ExitSprite ==
    /\ after("Sprite")
    /\ Resume([machine EXCEPT !.envs = resetSprite(pop(@))], advanced(pop(stack)))

\* frameIndex++ comes before the name is evaluated, and the frame is stored
\* after it
frameAdded(sprite, name) ==
    [sprite EXCEPT !.frames = Append(@, NewFrame(name)),
                   !.frameMap = Put(@, name, sprite.frameIndex)]

frameCounted(sprite) == [sprite EXCEPT !.frameIndex = @ + 1]

frameBlockEnter(stmt, m) ==
    With(currentSprite(m.envs, Len(m.envs)), LAMBDA n :
         IF n = 0
         THEN thrown(m, m.envs, Error("FRAME block can only be used in SPRITE block", 0))
         ELSE With(frameCounted(spriteOf(m.envs, n)), LAMBDA sprite :
              Then([m EXCEPT !.envs = setSprite(m.envs, n, sprite)],
                   interpret(stmt.exprs[1], setSprite(m.envs, n, sprite)), LAMBDA name :
                   child([m EXCEPT !.envs = setSprite(name.envs, n,
                                                      frameAdded(sprite, name.value))]))))

ExecFrame ==
    /\ at("Frame")
    /\ Resume(frameBlockEnter(current, machine), Append(stack, Activation(current, current.body)))

ExitFrame == after("Frame") /\ Resume(leave(machine), advanced(pop(stack)))

songBlockEnter(stmt, m) ==
    Then(m, interpret(stmt.exprs[1], m.envs), LAMBDA nameValue :
         child([m EXCEPT !.envs = addNewSong(nameValue.envs, nameValue.value,
                                             Len(m.songs) + 1),
                         !.songs = Append(@, NewSong)]))

ExecSong ==
    /\ at("Song")
    /\ Resume(songBlockEnter(current, machine), Append(stack, Activation(current, current.body)))

ExitSong ==
    /\ after("Song")
    /\ Resume([machine EXCEPT !.envs = resetSong(pop(@))], advanced(pop(stack)))

\* environment.currentSong.addSheet(newSheet), a TypeError without a current
\* song
sheetBlockEnter(m, song) ==
    IF song = 0 THEN thrown(m, m.envs, TypeError)
    ELSE child([m EXCEPT !.songs[song].sheets = Append(@, NewSheet)])

ExecSheet ==
    /\ at("Sheet")
    /\ Resume(sheetBlockEnter(machine, songOf(envs)),
              Append(stack, Activation(current, current.body)))

ExitSheet == after("Sheet") /\ Resume(leave(machine), advanced(pop(stack)))

ExecBar == at("Bar") /\ Resume(BarStatement(current, machine), advanced(stack))

ExecGain == at("Gain") /\ Resume(GainStatement(current, machine), advanced(stack))

ExecBpm == at("Bpm") /\ Resume(BpmStatement(current, machine), advanced(stack))

ExecLoop == at("Loop") /\ Resume(LoopStatement(current, machine), advanced(stack))

ExecType == at("Type") /\ Resume(TypeStatement(current, machine), advanced(stack))

ExecPlay == at("Play") /\ Resume(PlayStatement(current, machine), advanced(stack))

ExecStop == at("Stop") /\ Resume(StopStatement(current, machine), advanced(stack))

\* the statement returns without awaiting the timer
unslept(m) ==
    /\ envs' = m.envs
    /\ error' = m.err
    /\ pc' = IF m.err # NoError THEN "failed" ELSE "interpret"
    /\ stack' = advanced(stack)
    /\ UNCHANGED <<scanner, statements, running, ctx, printed, debugged, calls, songs, tasks,
                   host, parser>>

\* SLEEP: the duration is evaluated and the statement awaits the timer
sleeping(m) ==
    /\ envs' = m.envs
    /\ error' = m.err
    /\ pc' = IF m.err # NoError THEN "failed" ELSE "sleeping"
    /\ UNCHANGED <<scanner, statements, stack, running, ctx, printed, debugged, calls, songs,
                   tasks, host, parser>>

ExecSleep == at("Sleep") /\ sleeping(Evaluated(machine, interpret(current.exprs[1], envs)))

\* the timer of SLEEP fires
Wake ==
    /\ pc = "sleeping"
    /\ pc' = "interpret"
    /\ stack' = advanced(stack)
    /\ UNCHANGED <<scanner, error, statements, envs, running, ctx, printed, debugged, calls,
                   songs, tasks, host, parser>>

\* Timers and host events are served when no code is running: the run awaits
\* a timer or has ended.
suspended == pc \in {"sleeping", "done", "failed"}

\* the timer of a note fires, in whatever order the durations give
NoteEnds ==
    /\ suspended
    /\ \E t \in DOMAIN tasks :
          /\ tasks[t].state = "note"
          /\ tasks' = settle(noteEnded(machine, t, sheetOf(machine, tasks[t]),
                                       songs[tasks[t].song]),
                             tasks[t].play).tasks
    /\ UNCHANGED <<pc, scanner, error, statements, stack, envs, running, ctx, printed,
                   debugged, calls, songs, host, parser>>

\* sleep(5000) of Sheet.play is over: the node is disconnected, play() resolves
TrailEnds ==
    /\ suspended
    /\ \E t \in DOMAIN tasks :
          /\ tasks[t].state = "trailing"
          /\ tasks' = settle([machine EXCEPT !.tasks[t].state = "done"], tasks[t].play).tasks
    /\ UNCHANGED <<pc, scanner, error, statements, stack, envs, running, ctx, printed,
                   debugged, calls, songs, host, parser>>

MaxHostCalls == 2

\* ctx.clearRect(0, 0, canvas.width, canvas.height): a rectangle of no colour
clearRect(context) ==
    [x |-> Num(0), y |-> Num(0), w |-> context.width, h |-> context.height, color |-> Null]

\* the host calls stop() while the run awaits a timer
HostStop ==
    /\ pc = "sleeping"
    /\ Len(host) < MaxHostCalls
    /\ host' = Append(host, "stop")
    /\ running' = FALSE
    /\ calls' = IF ctx.exists THEN Append(calls, clearRect(ctx)) ELSE calls
    /\ UNCHANGED <<pc, scanner, error, statements, stack, envs, ctx, printed, debugged, songs,
                   tasks, parser>>

\* Interpreter.interpret of a program none of whose statements awaits a
\* timer: it is over before any timer is served
RECURSIVE interpretAtOnce(_, _, _)
interpretAtOnce(stmts, k, m) ==
    IF k > Len(stmts) \/ m.err # NoError THEN m
    ELSE interpretAtOnce(stmts, k + 1, execute(stmts[k], m))

\* run(source) of such a program, in the state m of the globals; its
\* environment is its own, and its rejection is the host's to handle
runAtOnce(scanned, parsed, m) ==
    IF scanned.error # NoError \/ parsed.err # NoError THEN m
    ELSE [interpretAtOnce(parsed.node, 1, [m EXCEPT !.envs = <<NewEnvironment>>])
             EXCEPT !.envs = m.envs, !.err = NoError]

ran(m) ==
    /\ ctx' = m.ctx
    /\ printed' = m.printed
    /\ debugged' = m.debugged
    /\ calls' = m.calls

\* the programs the host runs while a run is suspended: nothing, DEBUG 2
HostSources == {<<>>, <<"D", "E", "B", "U", "G", " ", "2">>}

\* the host calls run(source) while the run awaits a timer
HostRun ==
    /\ pc = "sleeping"
    /\ Len(host) < MaxHostCalls
    /\ host' = Append(host, "run")
    /\ running' = TRUE
    /\ \E source \in HostSources :
          ran(runAtOnce(scanTokens(NewScanner(source)),
                        parse(scanTokens(NewScanner(source)).tokens), machine))
    /\ UNCHANGED <<pc, scanner, error, statements, stack, envs, songs, tasks, parser>>

\* the loop of Interpreter.interpret is over: run() resolves
Finish ==
    /\ after("Interpreter")
    /\ pc' = "done"
    /\ stack' = <<>>
    /\ UNCHANGED <<scanner, error, statements, envs, running, ctx, printed, debugged, calls, songs, tasks, host, parser>>

-----------------------------------------------------------------------------
(* Programs, written as the source text run() is given *)

Keyword(type) == (CHOOSE entry \in keywords : entry[1] = type)[2]

\* the texts, joined by the separator
RECURSIVE Join(_, _)
Join(texts, separator) ==
    IF texts = <<>> THEN <<>>
    ELSE IF Len(texts) = 1 THEN texts[1]
    ELSE texts[1] \o separator \o Join(Tail(texts), separator)

Words(texts) == Join(texts, <<" ">>)
Lines(texts) == Join(texts, <<"\n">>)
Quoted(chars) == <<"\"">> \o chars \o <<"\"">>
Numeral(n) == DigitsOf(n)

\* the literal that evaluates to the value
LiteralText(value) ==
    CASE value.t = "num" -> Numeral(value.v)
      [] value.t = "str" -> Quoted(value.v)
      [] value.t = "bool" -> Keyword(IF value.v THEN "TRUE" ELSE "FALSE")
      [] value.t = "null" -> Keyword("NULL")

\* the binary operators, by token type, with their spelling and their level
\* of precedence as section 4.2 of the specification orders them
OperatorText ==
    [OR |-> Keyword("OR"), AND |-> Keyword("AND"),
     EQUAL_EQUAL |-> <<"=", "=">>, NOT_EQUAL |-> <<"<", ">">>,
     GREATER |-> <<">">>, GREATER_EQUAL |-> <<">", "=">>,
     LESS |-> <<"<">>, LESS_EQUAL |-> <<"<", "=">>,
     PLUS |-> <<"+">>, MINUS |-> <<"-">>, STAR |-> <<"*">>, SLASH |-> <<"/">>,
     NOT |-> <<"!">>]

BinaryOperators == DOMAIN OperatorText \ {"NOT"}
UnaryOperators == {"NOT", "MINUS"}
NumberOperators == BinaryOperators \ {"OR", "AND", "EQUAL_EQUAL", "NOT_EQUAL", "PLUS"}

Level(type) ==
    CASE type = "OR" -> 1
      [] type = "AND" -> 2
      [] type \in {"EQUAL_EQUAL", "NOT_EQUAL"} -> 3
      [] type \in {"GREATER", "GREATER_EQUAL", "LESS", "LESS_EQUAL"} -> 4
      [] type \in {"PLUS", "MINUS"} -> 5
      [] type \in {"STAR", "SLASH"} -> 6

PrintOf(text) == Words(<<Keyword("PRINT"), text>>)

\* PRINT 1 op1 2 op2 3
PairSource(op1, op2) ==
    PrintOf(Words(<<Numeral(1), OperatorText[op1], Numeral(2), OperatorText[op2], Numeral(3)>>))

\* PRINT u 1 op 2
UnarySource(u, op) ==
    PrintOf(Words(<<OperatorText[u], Numeral(1), OperatorText[op], Numeral(2)>>))

\* LET X = 0 / X = 1 op 2
AssignSource(op) ==
    Lines(<<Words(<<Keyword("LET"), <<"X">>, <<"=">>, Numeral(0)>>),
            Words(<<<<"X">>, <<"=">>, Numeral(1), OperatorText[op], Numeral(2)>>)>>)

MaxOperand == 3
Operands == 0..MaxOperand

\* PRINT a + b * c and PRINT ( a + b ) * c
SumProductSource(a, b, c) ==
    PrintOf(Words(<<Numeral(a), <<"+">>, Numeral(b), <<"*">>, Numeral(c)>>))

GroupedSource(a, b, c) ==
    PrintOf(Words(<<<<"(">>, Numeral(a), <<"+">>, Numeral(b), <<")">>, <<"*">>, Numeral(c)>>))

PrecedenceSources ==
    {PairSource(op1, op2) : op1 \in BinaryOperators, op2 \in BinaryOperators}
    \cup {UnarySource(u, op) : u \in UnaryOperators, op \in BinaryOperators}
    \cup {AssignSource(op) : op \in BinaryOperators}
    \cup {SumProductSource(a, b, c) : a \in Operands, b \in Operands, c \in Operands}
    \cup {GroupedSource(a, b, c) : a \in Operands, b \in Operands, c \in Operands}

\* PRINT l op r for literals of every type, and PRINT 1 + "a" > 2
MaxNumber == 2
OperandValues ==
    {Num(n) : n \in 0..MaxNumber} \cup {Str(<<>>), Str(<<"a">>), Str(<<"a", "b">>)}
    \cup {Bool(TRUE), Bool(FALSE), Null}

OperationSource(l, op, r) == PrintOf(Words(<<LiteralText(l), OperatorText[op], LiteralText(r)>>))

ChainedSource ==
    PrintOf(Words(<<Numeral(1), <<"+">>, Quoted(<<"a">>), <<">">>, Numeral(2)>>))

OperationSources ==
    {OperationSource(l, op, r) :
        l \in OperandValues, op \in NumberOperators \cup {"PLUS"}, r \in OperandValues}
    \cup {ChainedSource}

\* LET X = v, then PRINT X inside depth nested blocks
MaxDepth == 2
Depths == 0..MaxDepth

Nested(depth, lines) ==
    [n \in 1..depth |-> Keyword("THEN")] \o lines \o [n \in 1..depth |-> Keyword("END")]

Let1(name, text) == Words(<<Keyword("LET"), name, <<"=">>, text>>)

ReadSource(v, depth) ==
    Lines(<<Let1(<<"X">>, LiteralText(v))>> \o Nested(depth, <<PrintOf(<<"X">>)>>))

\* LET X = 1, then inside depth nested blocks LET Y = 2 and N = e
AssignedTexts ==
    {Numeral(5), <<"X">>, Words(<<<<"X">>, <<"+">>, <<"Y">>>>), Quoted(<<"a">>)}

UndeclaredSource(e, depth) ==
    Lines(<<Let1(<<"X">>, Numeral(1))>>
          \o Nested(depth, <<Let1(<<"Y">>, Numeral(2)), Words(<<<<"N">>, <<"=">>, e>>),
                             PrintOf(<<"N">>)>>))

VariableSources ==
    {ReadSource(v, depth) : v \in OperandValues, depth \in Depths}
    \cup {UndeclaredSource(e, depth) : e \in AssignedTexts, depth \in Depths}

\* IF c THEN PRINT 1 [ELSE PRINT 2] END PRINT 3
IfSource(c, else) ==
    Lines(<<Words(<<Keyword("IF"), LiteralText(c), Keyword("THEN")>>), PrintOf(Numeral(1))>>
          \o (IF else THEN <<Keyword("ELSE"), PrintOf(Numeral(2))>> ELSE <<>>)
          \o <<Keyword("END"), PrintOf(Numeral(3))>>)

\* LET X = 0 / IF [!] ( X = X + 1 ) THEN PRINT X ELSE PRINT X + 10 END
CountingSource(negated) ==
    Lines(<<Let1(<<"X">>, Numeral(0)),
            Words(<<Keyword("IF")>> \o (IF negated THEN <<OperatorText["NOT"]>> ELSE <<>>)
                  \o <<<<"(">>, <<"X">>, <<"=">>, <<"X">>, <<"+">>, Numeral(1), <<")">>,
                       Keyword("THEN")>>),
            PrintOf(<<"X">>),
            Keyword("ELSE"),
            PrintOf(Words(<<<<"X">>, <<"+">>, Numeral(10)>>)),
            Keyword("END")>>)

IfSources ==
    {IfSource(c, else) : c \in OperandValues, else \in BOOLEAN}
    \cup {CountingSource(negated) : negated \in BOOLEAN}

\* Loops that add 1 .. n to S through a variable T declared in the body.
\* The variant "later" reads T at the start of every iteration but the
\* first, the variant "after" reads T after the loop.
MaxIterations == 3
Iterations == 0..MaxIterations
LoopVariants == {"plain", "later", "after"}

LoopBody(variant) ==
    (IF variant = "later"
     THEN <<Words(<<Keyword("IF"), <<"I">>, <<">">>, Numeral(0), Keyword("THEN"),
                    PrintOf(<<"T">>), Keyword("END")>>)>>
     ELSE <<>>)
    \o <<Let1(<<"T">>, Words(<<<<"I">>, <<"+">>, Numeral(1)>>)),
         Words(<<<<"S">>, <<"=">>, <<"S">>, <<"+">>, <<"T">>>>)>>

LoopEnd(variant) ==
    <<Keyword("END"), PrintOf(<<"S">>)>>
    \o (IF variant = "after" THEN <<PrintOf(<<"T">>)>> ELSE <<>>)

Increment == Words(<<<<"I">>, <<"=">>, <<"I">>, <<"+">>, Numeral(1)>>)

WhileSource(n, variant) ==
    Lines(<<Let1(<<"I">>, Numeral(0)), Let1(<<"S">>, Numeral(0)),
            Words(<<Keyword("WHILE"), <<"I">>, <<"<">>, Numeral(n), Keyword("THEN")>>)>>
          \o LoopBody(variant) \o <<Increment>> \o LoopEnd(variant))

ForSource(n, variant) ==
    Lines(<<Let1(<<"S">>, Numeral(0)),
            Words(<<Keyword("FOR"), <<"(">>, Let1(<<"I">>, Numeral(0)), <<":">>,
                    <<"I">>, <<"<">>, Numeral(n), <<":">>, Increment, <<")">>,
                    Keyword("THEN")>>)>>
          \o LoopBody(variant) \o LoopEnd(variant))

LoopSources ==
    {WhileSource(n, variant) : n \in Iterations, variant \in LoopVariants}
    \cup {ForSource(n, variant) : n \in Iterations, variant \in LoopVariants}

\* PRINT "Hello, OneShot!"
Hello == <<"H", "e", "l", "l", "o", ",", " ", "O", "n", "e", "S", "h", "o", "t", "!">>

HelloSource == PrintOf(Quoted(Hello))

\* DEBUG 9 / LET X = 1 / PRINT X / WHILE X < k THEN X = X + 1 / PRINT X END
MaxPrints == 3

CountSource(k) ==
    Lines(<<Words(<<Keyword("DEBUG"), Numeral(9)>>),
            Let1(<<"X">>, Numeral(1)),
            PrintOf(<<"X">>),
            Words(<<Keyword("WHILE"), <<"X">>, <<"<">>, Numeral(k), Keyword("THEN")>>),
            Words(<<<<"X">>, <<"=">>, <<"X">>, <<"+">>, Numeral(1)>>),
            PrintOf(<<"X">>),
            Keyword("END")>>)

PrintSources == {HelloSource} \cup {CountSource(k) : k \in 1..MaxPrints}

\* WINDOW 16, 16 / SPRITE "s" / SIZE w, 2 / FRAME "f" / COLORDATA "r", "red" /
\* PIXELDATA row / PIXELDATA row / END / END / COLOR "blue" / FILL ALL /
\* DRAW x, y, "s", frame
\* with two rows of width w over r (red) and . (no palette entry), the frame
\* by name or by index
MaxWidth == 2
Pixels == {"r", "."}
PixelRows == [1..MaxWidth -> Pixels]
PixelGrids == [1..2 -> PixelRows]
Origins == {<<0, 0>>, <<1, 2>>}
Red == <<"r", "e", "d">>
Blue == <<"b", "l", "u", "e">>

Statement2(keyword, a, b) == Words(<<Keyword(keyword), a \o <<",">>, b>>)

SpriteHead == Words(<<Keyword("SPRITE"), Quoted(<<"s">>)>>)
FrameHead == Words(<<Keyword("FRAME"), Quoted(<<"f">>)>>)
PixelData(row) == Words(<<Keyword("PIXELDATA"), Quoted(row)>>)

DrawSource(grid, origin, frameSpec) ==
    Lines(<<Statement2("WINDOW", Numeral(16), Numeral(16)),
            SpriteHead,
            Statement2("SIZE", Numeral(MaxWidth), Numeral(2)),
            FrameHead,
            Statement2("COLORDATA", Quoted(<<"r">>), Quoted(Red))>>
          \o [n \in 1..Len(grid) |-> PixelData(grid[n])]
          \o <<Keyword("END"), Keyword("END"),
               Words(<<Keyword("COLOR"), Quoted(Blue)>>),
               Words(<<Keyword("FILL"), Keyword("ALL")>>),
               Words(<<Keyword("DRAW"), Numeral(origin[1]) \o <<",">>,
                       Numeral(origin[2]) \o <<",">>, Quoted(<<"s">>) \o <<",">>,
                       LiteralText(frameSpec)>>)>>)

FrameSpecs == {Str(<<"f">>), Num(0)}

DrawPrograms ==
    {[source |-> DrawSource(grid, origin, frameSpec), grid |-> grid, origin |-> origin] :
        grid \in PixelGrids, origin \in Origins, frameSpec \in FrameSpecs}

DrawSources == {program.source : program \in DrawPrograms}

\* SPRITE "s" with SIZE w, h before the FRAME block or after it, and in the
\* frame a number of rows of one length
MaxSize == 2
Sizes == 1..MaxSize
Lengths == 1..MaxSize + 1
Size(w, h) == Statement2("SIZE", Numeral(w), Numeral(h))

OrderSource(w, h, length, rows, sizeFirst) ==
    Lines(<<SpriteHead>>
          \o (IF sizeFirst THEN <<Size(w, h)>> ELSE <<>>)
          \o <<FrameHead>>
          \o [n \in 1..rows |-> PixelData([c \in 1..length |-> "r"])]
          \o <<Keyword("END")>>
          \o (IF sizeFirst THEN <<>> ELSE <<Size(w, h)>>)
          \o <<Keyword("END")>>)

OrderSources ==
    {OrderSource(w, h, length, rows, sizeFirst) :
        w \in Sizes, h \in Sizes, length \in Lengths, rows \in Lengths, sizeFirst \in BOOLEAN}

\* SONG "m" of one sheet per bar text, played, stopped and played again at
\* the top level
C4 == <<"C", "4">>
D4 == <<"D", "4">>

RECURSIVE Flatten(_)
Flatten(units) == IF units = <<>> THEN <<>> ELSE Head(units) \o Flatten(Tail(units))

SongName == <<"m">>
SongHead(name) == Words(<<Keyword("SONG"), Quoted(name)>>)
Bar(text) == Words(<<Keyword("BAR"), Quoted(text)>>)
Play(name) == Words(<<Keyword("PLAY"), Quoted(name)>>)
Stop(name) == Words(<<Keyword("STOP"), Quoted(name)>>)
Sleep1 == Words(<<Keyword("SLEEP"), Numeral(1)>>)
Window16 == Statement2("WINDOW", Numeral(16), Numeral(16))

Dressing ==
    <<Words(<<Keyword("GAIN"), Numeral(50)>>),
      Words(<<Keyword("TYPE"), Quoted(<<"s", "q", "u", "a", "r", "e">>)>>)>>

SheetOf(bar, dressed) ==
    <<Keyword("SHEET")>> \o (IF dressed THEN Dressing ELSE <<>>) \o <<Bar(bar), Keyword("END")>>

SheetBars ==
    { <<C4 \o <<" ">> \o D4>>, <<C4 \o <<" ">> \o D4, D4 \o <<" ">> \o C4>>,
      <<<<"H", "9">>, C4>>, <<Extend, C4>> }

Endings ==
    { <<Play(SongName), PrintOf(Numeral(1))>>,
      <<Play(SongName), Stop(SongName)>>,
      <<Play(SongName), Stop(SongName), Play(SongName)>>,
      <<Play(<<"x">>), PrintOf(Numeral(1))>>,
      <<Stop(<<"x">>)>> }

SleepEndings ==
    { <<Play(SongName), Sleep1, Stop(SongName), PrintOf(Numeral(1))>>,
      <<Play(SongName), Sleep1, Stop(SongName), Play(SongName)>> }

\* the duration of SLEEP read from a variable
SleepByVariable ==
    <<Let1(<<"T">>, Numeral(1)), Play(SongName), Words(<<Keyword("SLEEP"), <<"T">>>>),
      PrintOf(Numeral(1))>>

SongBlock(bars, looping, dressed) ==
    <<SongHead(SongName)>>
    \o (IF looping THEN <<Words(<<Keyword("LOOP"), Keyword("TRUE")>>)>> ELSE <<>>)
    \o (IF dressed THEN <<Words(<<Keyword("BPM"), Numeral(60)>>)>> ELSE <<>>)
    \o Flatten([k \in 1..Len(bars) |-> SheetOf(bars[k], dressed)])
    \o <<Keyword("END")>>

SongSource(bars, windowed, looping, dressed, ending) ==
    Lines((IF windowed THEN <<Window16>> ELSE <<>>)
          \o SongBlock(bars, looping, dressed) \o ending)

SongSources ==
    {SongSource(bars, windowed, looping, FALSE, ending) :
        bars \in SheetBars, windowed \in BOOLEAN, looping \in BOOLEAN, ending \in Endings}
    \cup {SongSource(<<C4 \o <<" ">> \o D4>>, windowed, looping, FALSE, ending) :
             windowed \in BOOLEAN, looping \in BOOLEAN, ending \in SleepEndings}
    \cup {SongSource(<<C4>>, TRUE, FALSE, TRUE, <<Play(SongName)>>)}
    \cup {SongSource(<<C4 \o <<" ">> \o D4>>, TRUE, FALSE, FALSE, SleepByVariable)}

\* A loop with SLEEP 1 in its body, which runs for ever or counts to 2, and
\* after it FILL ALL in a window and PRINT 1
Assign0 == Words(<<<<"I">>, <<"=">>, Numeral(0)>>)
Below2 == Words(<<<<"I">>, <<"<">>, Numeral(2)>>)

SleepLoop(kind, forever) ==
    IF kind = "While"
    THEN <<Let1(<<"I">>, Numeral(0)),
           Words(<<Keyword("WHILE"), IF forever THEN Keyword("TRUE") ELSE Below2,
                   Keyword("THEN")>>),
           Sleep1>>
         \o (IF forever THEN <<>> ELSE <<Increment>>) \o <<Keyword("END")>>
    ELSE <<Words(<<Keyword("FOR"), <<"(">>, Let1(<<"I">>, Numeral(0)), <<":">>,
                   IF forever THEN Keyword("TRUE") ELSE Below2, <<":">>,
                   IF forever THEN Assign0 ELSE Increment, <<")">>, Keyword("THEN")>>),
           Sleep1, Keyword("END")>>

SleepLoopSource(kind, forever, windowed) ==
    Lines((IF windowed THEN <<Window16>> ELSE <<>>)
          \o SleepLoop(kind, forever)
          \o (IF windowed THEN <<Words(<<Keyword("FILL"), Keyword("ALL")>>)>> ELSE <<>>)
          \o <<PrintOf(Numeral(1))>>)

ForeverSources ==
    {SleepLoopSource(kind, TRUE, windowed) : kind \in {"While", "For"}, windowed \in BOOLEAN}

SleepLoopSources ==
    ForeverSources
    \cup {SleepLoopSource(kind, FALSE, windowed) :
             kind \in {"While", "For"}, windowed \in BOOLEAN}

\* FOR with an initializer and an increment that assign to J, which is not
\* declared, or that are in order
AssignJ == Words(<<<<"J">>, <<"=">>, Numeral(1)>>)
Below1 == Words(<<<<"I">>, <<"<">>, Numeral(1)>>)

ClauseSource(initializer, condition, increment) ==
    Lines(<<Words(<<Keyword("FOR"), <<"(">>, initializer, <<":">>, condition, <<":">>,
                    increment, <<")">>, Keyword("THEN")>>),
            Keyword("END"), PrintOf(Numeral(1))>>)

ClauseSources ==
    {ClauseSource(initializer, condition, increment) :
        initializer \in {Let1(<<"I">>, Numeral(0)), AssignJ},
        condition \in {Keyword("FALSE"), Below1},
        increment \in {Increment, AssignJ}}

\* SPRITE "s" or SONG "m" at the top level or in the body of a THEN block, an
\* IF, a WHILE or a FOR that is executed once, and after it a DRAW, PLAY or
\* STOP of the name, at the top level or in a THEN block
Scopes == {"Top", "Then", "If", "While", "For"}

Scoped(scope, lines) ==
    CASE scope = "Top" -> lines
      [] scope = "Then" -> <<Keyword("THEN")>> \o lines \o <<Keyword("END")>>
      [] scope = "If" ->
            <<Words(<<Keyword("IF"), Keyword("TRUE"), Keyword("THEN")>>)>> \o lines
            \o <<Keyword("END")>>
      [] scope = "While" ->
            <<Let1(<<"I">>, Numeral(0)), Words(<<Keyword("WHILE"), Below1, Keyword("THEN")>>)>>
            \o lines \o <<Increment, Keyword("END")>>
      [] scope = "For" ->
            <<Words(<<Keyword("FOR"), <<"(">>, Let1(<<"I">>, Numeral(0)), <<":">>, Below1,
                      <<":">>, Increment, <<")">>, Keyword("THEN")>>)>>
            \o lines \o <<Keyword("END")>>

SmallSprite ==
    <<SpriteHead, Size(1, 1), FrameHead, Statement2("COLORDATA", Quoted(<<"r">>), Quoted(Red)),
      PixelData(<<"r">>), Keyword("END"), Keyword("END")>>

DrawSprite ==
    Words(<<Keyword("DRAW"), Numeral(0) \o <<",">>, Numeral(0) \o <<",">>,
            Quoted(<<"s">>) \o <<",">>, Quoted(<<"f">>)>>)

ScopeSource(scope, registration, use, useScope) ==
    Lines(<<Window16>> \o Scoped(scope, registration) \o Scoped(useScope, <<use>>))

ScopeSources ==
    {ScopeSource(scope, SmallSprite, DrawSprite, useScope) :
        scope \in Scopes, useScope \in {"Top", "Then"}}
    \cup {ScopeSource(scope, SongBlock(<<C4>>, FALSE, FALSE), use, useScope) :
             scope \in Scopes, use \in {Play(SongName), Stop(SongName)},
             useScope \in {"Top", "Then"}}

\* SPRITE or SONG with a name that is "s" or the empty string, and after the
\* block a statement for the active sprite or song
BlockNames == {<<"s">>, <<>>}

OutsideSprite ==
    {Size(2, 2), Statement2("COLORDATA", Quoted(<<"r">>), Quoted(Red)), PixelData(<<"r">>)}

OutsideSong ==
    {Bar(C4), Words(<<Keyword("GAIN"), Numeral(50)>>), Words(<<Keyword("BPM"), Numeral(60)>>),
     Words(<<Keyword("LOOP"), Keyword("TRUE")>>),
     Words(<<Keyword("TYPE"), Quoted(<<"s", "q", "u", "a", "r", "e">>)>>)}

OutsideSources ==
    {Lines(<<Words(<<Keyword("SPRITE"), Quoted(name)>>), Size(1, 1), FrameHead, Keyword("END"),
             Keyword("END"), outside>>) : name \in BlockNames, outside \in OutsideSprite}
    \cup {Lines(<<SongHead(name), Keyword("SHEET"), Keyword("END"), Keyword("END"), outside>>) :
             name \in BlockNames, outside \in OutsideSong}

\* FRAME with a name or without one, in a SPRITE block or at the top level
FrameHeads == {FrameHead, Keyword("FRAME")}

FrameSource(head, inSprite) ==
    Lines((IF inSprite THEN <<SpriteHead, Size(1, 1)>> ELSE <<>>)
          \o <<head, Statement2("COLORDATA", Quoted(<<"r">>), Quoted(Red)), PixelData(<<"r">>),
               Keyword("END")>>
          \o (IF inSprite THEN <<Keyword("END")>> ELSE <<>>))

FrameSources == {FrameSource(head, inSprite) : head \in FrameHeads, inSprite \in BOOLEAN}

\* a OR b and a AND b in a THEN block, b being the variable B declared at
\* the top level with a value, and then the assignment (X = 1)
LogicalOperators == {"OR", "AND"}

LogicalSource(a, op, b) ==
    Lines(<<Let1(<<"B">>, LiteralText(b)), Let1(<<"X">>, Numeral(0)), Keyword("THEN"),
            PrintOf(Words(<<LiteralText(a), OperatorText[op], <<"B">>>>)),
            PrintOf(Words(<<LiteralText(a), OperatorText[op],
                            <<"(">>, <<"X">>, <<"=">>, Numeral(1), <<")">>>>)),
            PrintOf(<<"X">>), Keyword("END")>>)

LogicalPrograms ==
    {[source |-> LogicalSource(a, op, b), a |-> a, op |-> op, b |-> b] :
        a \in OperandValues, op \in LogicalOperators, b \in OperandValues}

LogicalSources == {program.source : program \in LogicalPrograms}

\* LET X = 1 / IF c THEN LET n = 2 ELSE LET n = 3 END / PRINT n, n being X
\* or Y
IfScopeSource(c, n) ==
    Lines(<<Let1(<<"X">>, Numeral(1)),
            Words(<<Keyword("IF"), Keyword(IF c THEN "TRUE" ELSE "FALSE"), Keyword("THEN")>>),
            Let1(n, Numeral(2)), Keyword("ELSE"), Let1(n, Numeral(3)), Keyword("END"),
            PrintOf(n)>>)

IfScopePrograms ==
    {[source |-> IfScopeSource(c, n), name |-> n] : c \in BOOLEAN, n \in {<<"X">>, <<"Y">>}}

IfScopeSources == {program.source : program \in IfScopePrograms}

\* WINDOW 16, 16 / SPRITE "s" / SIZE w, 2 / FRAME "f" / COLORDATA "r", "red" /
\* PIXELDATA row / PIXELDATA row / END / END / COLOR "blue" / DRAW 0, 0, "s",
\* "f" / FILL ALL, with the COLOR statement or without it
PaintSource(grid, colored) ==
    Lines(<<Statement2("WINDOW", Numeral(16), Numeral(16)),
            SpriteHead,
            Statement2("SIZE", Numeral(MaxWidth), Numeral(2)),
            FrameHead,
            Statement2("COLORDATA", Quoted(<<"r">>), Quoted(Red))>>
          \o [n \in 1..Len(grid) |-> PixelData(grid[n])]
          \o <<Keyword("END"), Keyword("END")>>
          \o (IF colored THEN <<Words(<<Keyword("COLOR"), Quoted(Blue)>>)>> ELSE <<>>)
          \o <<Words(<<Keyword("DRAW"), Numeral(0) \o <<",">>, Numeral(0) \o <<",">>,
                       Quoted(<<"s">>) \o <<",">>, Quoted(<<"f">>)>>),
               Words(<<Keyword("FILL"), Keyword("ALL")>>)>>)

PaintPrograms ==
    {[source |-> PaintSource(grid, colored), grid |-> grid, colored |-> colored] :
        grid \in PixelGrids, colored \in BOOLEAN}

PaintSources == {program.source : program \in PaintPrograms}

\* (program families end)

Programs == PrecedenceSources \cup OperationSources \cup VariableSources \cup IfSources
    \cup LoopSources \cup PrintSources \cup DrawSources \cup OrderSources \cup SongSources
    \cup SleepLoopSources \cup ClauseSources
    \cup ScopeSources \cup OutsideSources \cup FrameSources
    \cup LogicalSources \cup IfScopeSources \cup PaintSources

InitRun ==
    /\ pc = "idle"
    /\ scanner \in {NewScanner(source) : source \in Programs}
    /\ Idle

NextRun ==
    \/ Run
    \/ ExecExpression
    \/ ExecLet
    \/ ExecDebug
    \/ ExecPrint
    \/ ExecWindow
    \/ ExecColor
    \/ ExecFill
    \/ ExecSize
    \/ ExecDraw
    \/ ExecColorData
    \/ ExecPixelData
    \/ ExecBlock
    \/ ExitBlock
    \/ ExecIf
    \/ ExitIf
    \/ ExecWhile
    \/ NextWhile
    \/ ExecFor
    \/ NextFor
    \/ ExecSprite
    \/ ExitSprite
    \/ ExecFrame
    \/ ExitFrame
    \/ ExecSong
    \/ ExitSong
    \/ ExecSheet
    \/ ExitSheet
    \/ ExecBar
    \/ ExecGain
    \/ ExecBpm
    \/ ExecLoop
    \/ ExecType
    \/ ExecPlay
    \/ ExecStop
    \/ ExecSleep
    \/ Wake
    \/ NoteEnds
    \/ TrailEnds
    \/ HostStop
    \/ HostRun
    \/ Finish

SpecRun == InitRun /\ [][NextRun]_vars

-----------------------------------------------------------------------------
(* The front end alone: any short text of words is scanned a token at a    *)
(* time, then parsed a top-level statement at a time                       *)

MaxWords == 6

FrontWords == {Keyword("IF"), Keyword("THEN"), Keyword("ELSE"), Keyword("END"), <<"X">>}

FrontSources == {Words(words) : words \in UNION {[1..n -> FrontWords] : n \in 0..MaxWords}}

InitFront ==
    /\ pc = "scanTokens"
    /\ scanner \in {NewScanner(source) : source \in FrontSources}
    /\ Idle

\* const parser = new Parser(tokens)
ParserNew ==
    /\ pc = "scanned"
    /\ parser' = NewParser(scanner.tokens)
    /\ pc' = "parse"
    /\ UNCHANGED <<scanner, error, statements, stack, envs, running, ctx, printed, debugged,
                   calls, songs, tasks, host>>

\* one turn of the while loop of Parser.parse; a throw ends the parse
ParseDeclaration ==
    /\ pc = "parse"
    /\ ~parserIsAtEnd(parser.tokens, parser.current)
    /\ LET next == declaration(parser.tokens, parser.current)
       IN  IF next.err # NoError
           THEN /\ pc' = "failed"
                /\ error' = next.err
                /\ UNCHANGED <<statements, parser>>
           ELSE /\ pc' = "parse"
                /\ statements' = Append(statements, next.node)
                /\ parser' = [parser EXCEPT !.current = next.cur]
                /\ error' = error
    /\ UNCHANGED <<scanner, stack, envs, running, ctx, printed, debugged, calls, songs, tasks,
                   host>>

\* the loop is over: the statements are returned
ParseReturn ==
    /\ pc = "parse"
    /\ parserIsAtEnd(parser.tokens, parser.current)
    /\ pc' = "parsed"
    /\ UNCHANGED <<scanner, error, statements, stack, envs, running, ctx, printed, debugged,
                   calls, songs, tasks, host, parser>>

NextFront == ScanToken \/ ScanReturn \/ ParserNew \/ ParseDeclaration \/ ParseReturn

SpecFront == InitFront /\ [][NextFront]_vars

\* the run has ended: run() resolved or rejected
ended == pc \in {"done", "failed"}

-----------------------------------------------------------------------------
(* Precedence *)

\* the expression of the last statement parsed
root == statements[Len(statements)].exprs[1]

IsOperation(node, type) == node.k \in {"Binary", "Logical"} /\ node.operator.type = type

One == Literal(Num(1))
Two == Literal(Num(2))
Three == Literal(Num(3))

\* 1 op1 2 op2 3 groups to the right when op2 is of a higher level than op1,
\* and to the left otherwise
PairGrouping(op1, op2) ==
    IF Level(op1) < Level(op2)
    THEN /\ IsOperation(root, op1)
         /\ root.left = One
         /\ IsOperation(root.right, op2)
         /\ root.right.left = Two
         /\ root.right.right = Three
    ELSE /\ IsOperation(root, op2)
         /\ root.right = Three
         /\ IsOperation(root.left, op1)
         /\ root.left.left = One
         /\ root.left.right = Two

\* C3: expressions are parsed with the levels assignment, OR, AND, equality,
\* comparison, additive, multiplicative, unary, primary, lowest first: of two
\* binary operators in a row the one of the higher level takes the operand
\* between them (the left one on equal levels), a unary operator takes its
\* operand before any binary operator does, an assignment takes the whole
\* expression to its right as its value, and parentheses group first; so
\* PRINT a + b * c prints a + (b * c) and PRINT (a + b) * c prints (a + b) * c
\* for all literals a, b, c of the range.
C3_Precedence ==
    /\ \A op1 \in BinaryOperators, op2 \in BinaryOperators :
          pc # "idle" /\ scanner.source = PairSource(op1, op2)
          => statements # <<>> /\ PairGrouping(op1, op2)
    /\ \A u \in UnaryOperators, op \in BinaryOperators :
          pc # "idle" /\ scanner.source = UnarySource(u, op)
          => /\ statements # <<>>
             /\ IsOperation(root, op)
             /\ root.left.k = "Unary" /\ root.left.token.type = u /\ root.left.right = One
             /\ root.right = Two
    /\ \A op \in BinaryOperators :
          pc # "idle" /\ scanner.source = AssignSource(op)
          => /\ Len(statements) = 2
             /\ root.k = "Assignment"
             /\ IsOperation(root.value, op)
             /\ root.value.left = One /\ root.value.right = Two
    /\ \A a \in Operands, b \in Operands, c \in Operands :
          /\ ended /\ scanner.source = SumProductSource(a, b, c)
             => pc = "done" /\ printed = <<Num(a + (b * c))>>
          /\ ended /\ scanner.source = GroupedSource(a, b, c)
             => pc = "done" /\ printed = <<Num((a + b) * c)>>

\* 1 + 2 * 3 has printed 7 and nothing else
C3_Witness ==
    /\ pc = "done"
    /\ scanner.source = SumProductSource(1, 2, 3)
    /\ printed = <<Num(7)>>

-----------------------------------------------------------------------------
(* Operand types *)

\* the text a number or a string contributes to a concatenation
TextOf(value) == IF value.t = "num" THEN Numeral(value.v) ELSE value.v

\* C5: + adds two numbers and concatenates string + string, string + number
\* and number + string; each of - * / < <= > >= ends the run with the error
\* 'Operands must be numbers' unless both operands are numbers, and with two
\* numbers it does not; PRINT 1 + "a" > 2 fails with that error.
C5_PlusAndNumberOperators ==
    /\ \A l \in OperandValues, r \in OperandValues :
          ended /\ scanner.source = OperationSource(l, "PLUS", r)
          => /\ l.t = "num" /\ r.t = "num" => pc = "done" /\ printed = <<Num(l.v + r.v)>>
             /\ {l.t, r.t} \subseteq {"num", "str"} /\ {l.t, r.t} # {"num"}
                => pc = "done" /\ printed = <<Str(TextOf(l) \o TextOf(r))>>
    /\ \A l \in OperandValues, r \in OperandValues, op \in NumberOperators :
          ended /\ scanner.source = OperationSource(l, op, r)
          => IF l.t = "num" /\ r.t = "num"
             THEN pc = "done" /\ Len(printed) = 1
             ELSE /\ pc = "failed"
                  /\ error.kind = "Operands must be numbers"
                  /\ printed = <<>>
    /\ ended /\ scanner.source = ChainedSource
       => pc = "failed" /\ error.kind = "Operands must be numbers" /\ printed = <<>>

\* "a" + 1 has printed "a1"
C5_Witness ==
    /\ pc = "done"
    /\ scanner.source = OperationSource(Str(<<"a">>), "PLUS", Num(1))
    /\ printed = <<Str(<<"a", "1">>)>>

-----------------------------------------------------------------------------
(* Variables *)

\* no scope of the chain, from the current one to the root, declares the name
Undeclared(name) == \A n \in 1..Len(envs) : name \notin DOMAIN envs[n].values

\* the statement about to run is an assignment to a name declared nowhere
AssigningUndeclared ==
    /\ at("Expression")
    /\ current.exprs[1].k = "Assignment"
    /\ Undeclared(current.exprs[1].name.lexeme)

-----------------------------------------------------------------------------
(* Truthiness and IF *)

\* falsy as section 4.3 of the specification has it
Falsy(value) == value = Null \/ value = Bool(FALSE)

\* C6: exactly null and false are falsy: an IF on NULL or FALSE runs only its
\* ELSE list (nothing without ELSE), an IF on any other value, 0 and ""
\* included, only its THEN list; the condition is evaluated once.
C6_TruthinessAndIf ==
    /\ \A c \in OperandValues, else \in BOOLEAN :
          ended /\ scanner.source = IfSource(c, else)
          => /\ pc = "done"
             /\ printed = IF ~Falsy(c) THEN <<Num(1), Num(3)>>
                          ELSE IF else THEN <<Num(2), Num(3)>>
                          ELSE <<Num(3)>>
    /\ ended /\ scanner.source = CountingSource(FALSE)
       => pc = "done" /\ printed = <<Num(11)>>
    /\ ended /\ scanner.source = CountingSource(TRUE)
       => pc = "done" /\ printed = <<Num(1)>>

\* IF 0 has run its THEN list and not its ELSE list
C6_Witness ==
    /\ pc = "done"
    /\ scanner.source = IfSource(Num(0), TRUE)
    /\ printed = <<Num(1), Num(3)>>

-----------------------------------------------------------------------------
(* Loops *)

\* 1 + 2 + ... + n
Triangle(n) == (n * (n + 1)) \div 2

LoopSource(kind, n, variant) ==
    IF kind = "While" THEN WhileSource(n, variant) ELSE ForSource(n, variant)

\* the innermost list is the body of a loop, about to start
AtIteration ==
    /\ pc = "interpret"
    /\ stack # <<>>
    /\ top.node.k \in {"While", "For"}
    /\ top.i = 1

\* C7: every iteration of a WHILE or FOR body runs in a fresh child
\* environment: it starts with an empty table; T, declared in the body, is in
\* no table but that of the running iteration, so that a read of T at the
\* start of a later iteration or after the loop fails as undefined; the
\* assignments of the body to S, declared outside, are in effect after the
\* loop.
C7_FreshEnvironment ==
    \A kind \in {"While", "For"}, n \in Iterations, variant \in LoopVariants :
        scanner.source = LoopSource(kind, n, variant)
        => /\ AtIteration => Len(envs) = 2 /\ envs[2].values = EmptyMap
           /\ \A e \in 1..Len(envs) :
                 <<"T">> \in DOMAIN envs[e].values
                 => e = 2 /\ pc = "interpret" /\ top.node.k \in {"While", "For", "If"}
           /\ ended /\ variant = "plain"
              => pc = "done" /\ printed = <<Num(Triangle(n))>>
           /\ ended /\ variant = "after"
              => /\ pc = "failed"
                 /\ error.kind = "Undefined variable"
                 /\ printed = <<Num(Triangle(n))>>
           /\ ended /\ variant = "later"
              => IF n < 2 THEN pc = "done" /\ printed = <<Num(Triangle(n))>>
                 ELSE /\ pc = "failed"
                      /\ error.kind = "Undefined variable"
                      /\ printed = <<>>
                      /\ envs[1].values[<<"I">>] = Num(1)

\* the second iteration of a WHILE has found T undeclared
C7_Witness ==
    /\ pc = "failed"
    /\ scanner.source = WhileSource(MaxIterations, "later")
    /\ envs[1].values[<<"I">>] = Num(1)
    /\ envs[1].values[<<"S">>] = Num(1)
    /\ error.kind = "Undefined variable"

-----------------------------------------------------------------------------
(* The print hook *)

\* C8: the print hook is called once for each PRINT executed, with the value
\* of its expression, in the order of execution, and by no other statement;
\* PRINT "Hello, OneShot!" calls it once, with "Hello, OneShot!".
C8_PrintHook ==
    /\ [][IF at("Print") /\ interpret(current.exprs[1], envs).err = NoError
          THEN printed' = Append(printed, interpret(current.exprs[1], envs).value)
          ELSE printed' = printed]_vars
    /\ [](scanner.source = HelloSource
          => /\ printed \in {<<>>, <<Str(Hello)>>}
             /\ ended => pc = "done" /\ printed = <<Str(Hello)>>)
    /\ [](\A k \in 1..MaxPrints :
            ended /\ scanner.source = CountSource(k)
            => /\ pc = "done"
               /\ printed = [n \in 1..k |-> Num(n)]
               /\ debugged = <<Num(9)>>)

\* the hook has been called with "Hello, OneShot!"
C8_Witness ==
    /\ pc = "done"
    /\ scanner.source = HelloSource
    /\ printed = <<Str(Hello)>>

-----------------------------------------------------------------------------
(* DRAW *)

\* the cells <<i, j>> of a grid of rows, row by row, left to right
GridCells(grid) ==
    [k \in 1..(Len(grid) * MaxWidth) |-> <<(k - 1) \div MaxWidth, (k - 1) % MaxWidth>>]

Coloured(grid, c) == grid[c[1] + 1][c[2] + 1] = "r"

\* one 4 by 4 rectangle in red at (x + 4 j, y + 4 i) for every r of the grid,
\* row by row
RedCalls(grid, origin) ==
    LET isRed(c) == Coloured(grid, c)
        red == SelectSeq(GridCells(grid), isRed)
    IN  [k \in 1..Len(red) |->
            [x |-> Num(origin[1] + 4 * red[k][2]), y |-> Num(origin[2] + 4 * red[k][1]),
             w |-> Num(4), h |-> Num(4), color |-> Str(Red)]]

FullRed == [i \in 1..2 |-> [j \in 1..2 |-> "r"]]

\* C9 (the programs fill the window once before their DRAW, which is their
\* last statement: the calls of DRAW are those after the first):
\* DRAW x, y, sprite, frame calls fillRect once for every cell of the
\* frame whose character has a palette colour, at (x + 4 j, y + 4 i) with size
\* 4 by 4 and in that colour, row by row, and not for a cell whose character
\* has no palette entry; a 2 by 2 red frame drawn at (0, 0) gives the calls at
\* (0, 0), (4, 0), (0, 4), (4, 4).
C9_DrawCalls ==
    /\ \A program \in DrawPrograms :
          scanner.source = program.source
          => /\ ended => pc = "done" /\ Len(calls) = 1 + Len(RedCalls(program.grid, program.origin))
             /\ Len(calls) > 1 => Tail(calls) = RedCalls(program.grid, program.origin)
    /\ \A frameSpec \in FrameSpecs :
          ended /\ scanner.source = DrawSource(FullRed, <<0, 0>>, frameSpec)
          => /\ Len(calls) = 5
             /\ \A k \in 2..5 : calls[k].w = Num(4) /\ calls[k].h = Num(4)
                                /\ calls[k].color = Str(Red)
             /\ <<calls[2].x.v, calls[2].y.v>> = <<0, 0>>
             /\ <<calls[3].x.v, calls[3].y.v>> = <<4, 0>>
             /\ <<calls[4].x.v, calls[4].y.v>> = <<0, 4>>
             /\ <<calls[5].x.v, calls[5].y.v>> = <<4, 4>>

\* the frame r. / .r drawn at (1, 2): two calls, at (1, 2) and (5, 6)
C9_Witness ==
    /\ pc = "done"
    /\ scanner.source = DrawSource(<<<<"r", ".">>, <<".", "r">>>>, <<1, 2>>, Num(0))
    /\ Len(calls) = 3
    /\ <<calls[2].x, calls[2].y>> = <<Num(1), Num(2)>>
    /\ <<calls[3].x, calls[3].y>> = <<Num(5), Num(6)>>

-----------------------------------------------------------------------------
(* Frame bounds *)

\* the frame keeps within the sprite's declared size
WithinBounds(sprite, frame) ==
    /\ sprite.sizeX.t = "num"
       => \A r \in DOMAIN frame.pixelData : rowLength(frame.pixelData[r]) <= sprite.sizeX.v
    /\ sprite.sizeY.t = "num" => Len(frame.pixelData) <= sprite.sizeY.v

\* C10: in every reachable state every frame of every sprite has rows no
\* longer than the sprite's declared width and no more rows than its declared
\* height, whatever the order of SIZE, FRAME and PIXELDATA in the SPRITE
\* block.
C10_FrameBounds ==
    \A e \in 1..Len(envs) : \A name \in DOMAIN envs[e].sprites :
        \A f \in DOMAIN envs[e].sprites[name].frames :
            WithinBounds(envs[e].sprites[name], envs[e].sprites[name].frames[f])

\* C25: the branches of an IF are executed in a fresh child environment. A
\* LET of Y in the branch taken is gone after the IF, so PRINT Y fails; a LET
\* of X in the branch leaves the X of the enclosing scope at 1, so PRINT X
\* prints 1.
C25_IfBranchScope ==
    \A program \in IfScopePrograms :
        ended /\ scanner.source = program.source
        => IF program.name = <<"X">> THEN pc = "done" /\ printed = <<Num(1)>>
           ELSE pc = "failed" /\ printed = <<>>

-----------------------------------------------------------------------------
(* Line numbers of tokens *)

\* the number of newline characters among the first n characters of the text
Newlines(text, n) == Cardinality({k \in 1..n : text[k] = "\n"})

\* C27: every token carries the line it occurs on. The token a step of the
\* scan adds has, as its line, 1 plus the number of newlines before its first
\* character, and the EOF token 1 plus the number of newlines of the source,
\* those inside comments and string literals included.
C27_TokenLines ==
    [][pc = "scanTokens" /\ Len(scanner'.tokens) > Len(scanner.tokens)
       => scanner'.tokens[Len(scanner'.tokens)].line
          = 1 + Newlines(scanner.source,
                         IF isAtEnd(scanner) THEN Len(scanner.source) ELSE scanner'.start)]_vars

-----------------------------------------------------------------------------
(* Logical operators *)

\* the left operand decides: truthy for OR, falsy for AND
decides(a, op) == IF op = "OR" THEN isTruthy(a) ELSE ~isTruthy(a)

\* C22: logical operators short-circuit. PRINT a OR B and PRINT a AND B print
\* the value of a when a decides, and the value of the variable B otherwise,
\* as it is; with the assignment (X = 1) as right operand, whose value is
\* null, X keeps its value 0 when a decides and is 1 otherwise.
C22_ShortCircuit ==
    \A program \in LogicalPrograms :
        ended /\ scanner.source = program.source
        => /\ pc = "done"
           /\ printed = IF decides(program.a, program.op)
                        THEN <<program.a, program.a, Num(0)>>
                        ELSE <<program.b, Null, Num(1)>>

\* FALSE OR B has printed the string B holds, and NULL AND B null
C22_Witness ==
    /\ pc = "done"
    /\ \/ /\ scanner.source = LogicalSource(Bool(FALSE), "OR", Str(<<"a">>))
          /\ printed = <<Str(<<"a">>), Null, Num(1)>>
       \/ /\ scanner.source = LogicalSource(Null, "AND", Str(<<"a">>))
          /\ printed = <<Null, Null, Num(0)>>

-----------------------------------------------------------------------------
(* PLAY and STOP *)

\* C12: PLAY is fire-and-forget. A PLAY of a song that resolves leaves the
\* main sequence at the statement after it, without an error, whatever became
\* of the playbacks it started (sounding or failed, none complete); and
\* no playback completes while the main sequence has a statement to execute.
C12_FireAndForget ==
    [][/\ at("Play") /\ getSong(envs, interpret(current.exprs[1], envs).value) # 0
          => /\ pc' = "interpret"
             /\ stack' = advanced(stack)
             /\ error' = NoError
             /\ tasksOf(tasks', Len(tasks) + 1) = (Len(tasks) + 1)..(Len(tasks') - 1)
             /\ \A t \in tasksOf(tasks', Len(tasks) + 1) : tasks'[t].state \in {"note", "failed"}
             /\ tasks'[Len(tasks')].state \in {"awaiting", "failed"}
       /\ \A t \in DOMAIN tasks :
             tasks[t].state # "done" /\ tasks'[t].state = "done" => suspended]_vars

\* the program is over, the PRINT after PLAY has printed, and the looping song
\* is still in a note
C12_Witness ==
    /\ pc = "done"
    /\ printed # <<>>
    /\ \E t \in DOMAIN tasks : tasks[t].state = "note" /\ songs[tasks[t].song].loop
    /\ \E t \in DOMAIN tasks : tasks[t].state = "failed"

\* C13: STOP is cooperative and effective. A sheet playback that was in a
\* note when a STOP of its song executed starts no further note: when that
\* note is over the playback leaves its loop, whatever PLAY and STOP
\* statements were executed in between.
C13_StopIsEffective ==
    [][\A t \in DOMAIN tasks :
          tasks[t].stopped /\ tasks[t].state = "note" /\ tasks'[t] # tasks[t]
          => tasks'[t].state # "note"]_vars

\* C20: Song.play() starts the playback of all its sheets together and is
\* complete only when all of them are. No sheet is at its second note while a
\* sheet of the same call that does start a note has not started its first;
\* the call is resolved only when the playback of every sheet is resolved;
\* and the call of a looping song is resolved only if its sheets were stopped.
C20_SheetsTogether ==
    \A p \in DOMAIN tasks :
        tasks[p].sheet = 0
        => /\ \A t, u \in tasksOf(tasks, tasks[p].play) :
                 tasks[t].index >= 2 => tasks[u].index >= 1 \/ tasks[u].state = "failed"
           /\ tasks[p].state = "done"
              => /\ \A t \in tasksOf(tasks, tasks[p].play) : tasks[t].state = "done"
                 /\ songs[tasks[p].song].loop
                    => \A t \in tasksOf(tasks, tasks[p].play) : tasks[t].stopped

\* the call of Song.play() of a song of two sheets that does not loop is
\* resolved
C20_Witness ==
    \E p \in DOMAIN tasks :
        /\ tasks[p].sheet = 0
        /\ tasks[p].state = "done"
        /\ Cardinality(tasksOf(tasks, tasks[p].play)) = 2
        /\ ~songs[tasks[p].song].loop

\* C21: SLEEP suspends the whole main program. A SLEEP whose duration
\* evaluates (a literal or a variable) leaves the program at the SLEEP
\* statement, awaiting the timer; until the timer fires no statement of the
\* program executes (its position, environment and output of print stay as
\* they are) while the sheet playbacks go through their notes; and when it
\* fires the program goes on with the statement after the SLEEP.
C21_SleepSuspends ==
    [][/\ at("Sleep") /\ interpret(current.exprs[1], envs).err = NoError
          => pc' = "sleeping" /\ stack' = stack /\ printed' = printed /\ tasks' = tasks
       /\ pc = "sleeping"
          => \/ /\ pc' = "sleeping"
                /\ stack' = stack
                /\ envs' = envs
                /\ host = host' => printed' = printed /\ calls' = calls
             \/ /\ pc' = "interpret"
                /\ stack' = advanced(stack)
                /\ UNCHANGED <<envs, printed, calls, tasks>>]_vars

\* the program awaits the timer of SLEEP T and a playback started before is
\* at its second note
C21_Witness ==
    /\ pc = "sleeping"
    /\ current.exprs[1].k = "Variable"
    /\ \E t \in DOMAIN tasks : tasks[t].state = "note" /\ tasks[t].index = 2

\* every note of the sheet is a rest or has a pitch with a frequency
playable(sheet) ==
    \A n \in DOMAIN sheet.notes : pitched(sheet.notes[n]) => validPitch(sheet.notes[n].note.v)

\* where the call t of Sheet.play() stands once its note at index i is over
afterNote(t, sheet, i) ==
    IF i = Len(sheet.notes) /\ ~songs[tasks[t].song].loop
    THEN [tasks[t] EXCEPT !.state = "trailing"]
    ELSE IF ~sheet.playing THEN [tasks[t] EXCEPT !.state = "trailing", !.index = i % Len(sheet.notes)]
    ELSE [tasks[t] EXCEPT !.index = (i % Len(sheet.notes)) + 1]

\* C23: a sheet's notes are played one after the other in the order of the
\* list. When the note a playback is in is over, the playback starts the next
\* note of the list; after the last note it ends if the song does not loop
\* and starts the first note again if it does (unless it was stopped),
\* whether or not WINDOW has been executed.
C23_NotesInOrder ==
    [][\A t \in DOMAIN tasks :
          /\ suspended
          /\ tasks[t].state = "note"
          /\ tasks'[t] # tasks[t]
          /\ playable(sheetOf(machine, tasks[t]))
          => tasks'[t] = afterNote(t, sheetOf(machine, tasks[t]), tasks[t].index)]_vars

\* the notes the bar text of a sheet stands for
notesOf(sheet) == build([sheet EXCEPT !.notes = <<>>])

\* the song PLAY names
named == envs[getSong(envs, interpret(current.exprs[1], envs).value)]
             .songs[interpret(current.exprs[1], envs).value]

\* C24: the notes a sheet plays are those of its bar text. After every PLAY
\* the note list of each sheet of the song whose bars can be built is the
\* result of building its bar text, however often the song was played.
C24_NotesFromBars ==
    [][at("Play") /\ getSong(envs, interpret(current.exprs[1], envs).value) # 0
       => \A k \in DOMAIN songs[named].sheets :
             notesOf(songs[named].sheets[k]).err = NoError
             => songs'[named].sheets[k].notes = notesOf(songs[named].sheets[k]).notes]_vars

-----------------------------------------------------------------------------
(* stop() and run() of the host *)

\* the host has called stop() during the run
stopCalled == \E k \in DOMAIN host : host[k] = "stop"

\* C14: after the host called stop() during a run, a WHILE or FOR loop of
\* that run starts no further iteration of its body when it comes to an
\* iteration boundary, whatever calls of stop() and run() the host made.
C14_StopExitsLoops ==
    [][/\ stopCalled /\ (after("While") \/ after("For")) => Len(stack') < Len(stack)
       /\ stopCalled /\ (at("While") \/ at("For")) => Len(stack') <= Len(stack)]_vars

\* C15: a loop that only stop() can end is followed by nothing: the
\* statements after it never print and never draw.
C15_NothingAfterCancelledLoop ==
    scanner.source \in ForeverSources
    => /\ printed = <<>>
       /\ \A k \in DOMAIN calls : calls[k].color = Null

-----------------------------------------------------------------------------
(* Errors *)

\* C16: every error aborts the run. When the initializer of a FOR loop, or
\* its increment after an iteration, raises an error, the run fails at once.
C16_ClauseErrorsAbort ==
    [][/\ at("For") /\ execute(current.clauses[1], machine).err # NoError => pc' = "failed"
       /\ after("For") /\ execute(top.node.clauses[2], leave(machine)).err # NoError
          => pc' = "failed"]_vars

-----------------------------------------------------------------------------
(* Names of sprites and songs *)

\* C17: a sprite or song name stays registered. In a program that executes a
\* SPRITE or SONG block (at the top level or in the body of a THEN, IF, WHILE
\* or FOR) and later a DRAW, PLAY or STOP of the name, the name resolves: the
\* run never fails with an undefined-sprite or undefined-song error.
C17_NamesStayRegistered ==
    scanner.source \in ScopeSources
    => error.kind \notin {"Undefined sprite", "Undefined song"}

\* a block of class k is being executed
inside(k) == \E i \in DOMAIN stack : stack[i].node.k = k

\* C18: the active sprite and the active song are cleared when their block
\* exits. SIZE, COLORDATA or PIXELDATA executed when no SPRITE block is being
\* executed, and BAR, GAIN, BPM, LOOP or TYPE executed when no SONG block is
\* being executed, fail and change no sprite and no song, whatever the name
\* of the block was.
C18_NoTargetOutsideBlock ==
    [][/\ (at("Size") \/ at("ColorData") \/ at("PixelData")) /\ ~inside("Sprite")
          => pc' = "failed" /\ envs' = envs
       /\ (at("Bar") \/ at("Gain") \/ at("Bpm") \/ at("Loop") \/ at("Type")) /\ ~inside("Song")
          => pc' = "failed" /\ envs' = envs /\ songs' = songs]_vars

\* C19: the name of FRAME is optional. A FRAME block without a name, executed
\* with an active sprite, does not fail: it adds a frame to the sprite and
\* its body is executed; a FRAME block executed with no active sprite fails.
C19_FrameNameOptional ==
    [][/\ at("Frame") /\ current.exprs[1].k = "null" /\ currentSprite(envs, Len(envs)) # 0
          => /\ pc' = "interpret"
             /\ stack' = Append(stack, Activation(current, current.body))
             /\ Len(spriteOf(envs', currentSprite(envs, Len(envs))).frames)
                = Len(spriteOf(envs, currentSprite(envs, Len(envs))).frames) + 1
       /\ at("Frame") /\ currentSprite(envs, Len(envs)) = 0 => pc' = "failed"]_vars

-----------------------------------------------------------------------------------------------------------------------------------------------------
(* The front end ends *)

\* the position of the EOF token, the parser's positions being 0-based
eof(tokens) == Len(tokens) - 1

\* C28: the front end always terminates: each turn of the loop of scanTokens
\* consumes at least one character; each turn of the loop of parse consumes
\* at least one token or throws, and so does a statement parsed at any
\* position before EOF, which is what the loops of blocks and of IF and
\* ELSE branches do at the positions they reach; the parser's cursor never
\* moves past the EOF token
C28_FrontEndEnds ==
    /\ [](pc \in {"parse", "parsed"}
          => /\ parser.current <= eof(parser.tokens)
             /\ \A cur \in 0..(eof(parser.tokens) - 1) :
                   LET next == declaration(parser.tokens, cur)
                   IN  next.err = NoError
                       => cur < next.cur /\ next.cur <= eof(parser.tokens))
    /\ [][/\ pc = "scanTokens" /\ ~isAtEnd(scanner)
             => scanner'.current > scanner.current
          /\ pc = "parse" /\ pc' = "parse"
             => \/ parser'.current > parser.current
                \/ parserIsAtEnd(parser.tokens, parser.current)]_vars

\* IF X THEN ELSE X END was parsed: the loop of parse and the loop of the
\* ELSE branch have each taken a turn, the loop of the IF branch has ended at
\* once, and the cursor stands on EOF
C28_Witness ==
    /\ pc = "parsed"
    /\ parser.current = eof(parser.tokens)
    /\ parser.current = 6
    /\ Len(statements) = 1
    /\ statements[1].k = "If"
    /\ statements[1].body = <<>>
    /\ Len(statements[1].elseBranch) = 1

-----------------------------------------------------------------------------
(* The clauses of FOR *)

\* the statement is name = name + ..., an increment of a variable
increments(stmt) ==
    /\ stmt.k = "Expression"
    /\ stmt.exprs[1].k = "Assignment"
    /\ stmt.exprs[1].value.k = "Binary"
    /\ stmt.exprs[1].value.operator.type = "PLUS"
    /\ stmt.exprs[1].value.left.k = "Variable"
    /\ stmt.exprs[1].value.left.name.lexeme = stmt.exprs[1].name.lexeme
    /\ stmt.exprs[1].value.right.k = "Literal"

\* the FOR statement that is starting, or whose body has just been completed
theFor == IF at("For") THEN current ELSE top.node

\* the environment chain the FOR was given
given == IF at("For") THEN envs ELSE pop(envs)

\* C29: the initializer and the increment of a FOR run in the environment
\* that encloses the loop and not in the child environment of an iteration: a
\* variable the initializer declares by LET is defined in the enclosing
\* environment, each new iteration starts in an empty child of it, the
\* increment runs once after each completed body and before the condition is
\* tested again, and when the condition ends the loop the variable is still
\* defined in the enclosing environment with the value that made it falsy
C29_ClausesInEnclosingScope ==
    [][/\ at("For") /\ current.clauses[1].k = "Let" /\ pc' = "interpret"
          => /\ SubSeq(envs', 1, Len(envs) - 1) = SubSeq(envs, 1, Len(envs) - 1)
             /\ current.clauses[1].name.lexeme \in DOMAIN envs'[Len(envs)].values
       /\ after("For") /\ increments(top.node.clauses[2]) /\ pc' = "interpret"
          /\ get(pop(envs), top.node.clauses[2].exprs[1].name).err = NoError
          => LET name == top.node.clauses[2].exprs[1].name
                 step == top.node.clauses[2].exprs[1].value.right.value
             IN  /\ get(envs', name).value = Num(get(pop(envs), name).value.v + step.v)
                 /\ Holder(envs', Len(envs'), "values", name.lexeme)
                    = Holder(pop(envs), Len(envs) - 1, "values", name.lexeme)
       /\ (at("For") \/ after("For")) /\ pc' = "interpret"
          => \/ /\ Len(stack') = Len(stack) + (IF at("For") THEN 1 ELSE 0)
                /\ envs' = Append(SubSeq(envs', 1, Len(given)), NewEnvironment)
                /\ isTruthy(interpret(theFor.exprs[1], SubSeq(envs', 1, Len(given))).value)
             \/ /\ Len(stack') = Len(stack) - (IF at("For") THEN 0 ELSE 1)
                /\ Len(envs') = Len(given)
                /\ running => ~isTruthy(interpret(theFor.exprs[1], envs').value)
                /\ theFor.clauses[1].k = "Let"
                   => theFor.clauses[1].name.lexeme \in DOMAIN envs'[Len(envs')].values]_vars

\* FOR ( LET I = 0 : I < 2 : I = I + 1 ) with a body that adds I + 1 to S has
\* ended: I is 2 in the environment of the program, and S is 1 + 2
C29_Witness ==
    /\ pc = "done"
    /\ scanner.source = ForSource(2, "plain")
    /\ Len(envs) = 1
    /\ envs[1].values[<<"I">>] = Num(2)
    /\ printed = <<Num(3)>>

-----------------------------------------------------------------------------
(* The colour after DRAW *)

\* C30: DRAW leaves the active drawing colour unchanged: after a DRAW that
\* completes, the fill style is what it was before it, whatever was painted,
\* and a FILL that follows a DRAW paints in the colour of the last COLOR
\* before the DRAW (the canvas's black when there was none), as does a TEXT,
\* which reads the same fill style
C30_DrawKeepsColor ==
    /\ [](\A program \in PaintPrograms :
             ended /\ scanner.source = program.source
             => /\ pc = "done"
                /\ Len(calls) = Len(RedCalls(program.grid, <<0, 0>>)) + 1
                /\ calls[Len(calls)].color
                   = IF program.colored THEN Str(Blue) ELSE Str(Black)
                /\ ctx.fillStyle = calls[Len(calls)].color)
    /\ [][at("Draw") /\ pc' = "interpret" => ctx'.fillStyle = ctx.fillStyle]_vars

\* a frame of four red cells was drawn after COLOR "blue", and the FILL ALL
\* behind the DRAW has painted in blue
C30_Witness ==
    /\ pc = "done"
    /\ scanner.source = PaintSource(FullRed, TRUE)
    /\ Len(calls) = 5
    /\ calls[4].color = Str(Red)
    /\ calls[5].color = Str(Blue)

-----
(* Building the notes of any short bar text *)

MaxUnits == 5

Pitches == {C4, D4}

\* what a bar text is written with: pitches, the two markers, the space
\* between them and the newline BAR ends every bar with
BarUnits == Pitches \cup {Hold, Extend, <<" ">>, <<"\n">>}

\* a sheet's bars: empty before the first BAR, ending in a newline after it
BarTexts ==
    {<<>>} \cup {Flatten(units) \o <<"\n">> :
                    units \in UNION {[1..n -> BarUnits] : n \in 0..MaxUnits}}

\* a song of one sheet with the bars given
SongOf(bars) == [NewSong EXCEPT !.sheets = <<[NewSheet EXCEPT !.bars = bars]>>]

InitBuild ==
    /\ pc = "build"
    /\ scanner = NewScanner(<<>>)
    /\ error = NoError
    /\ statements = <<>>
    /\ stack = <<>>
    /\ envs = <<>>
    /\ running = FALSE
    /\ ctx = [exists |-> FALSE, fillStyle |-> Str(Black), width |-> Undefined,
              height |-> Undefined]
    /\ printed = <<>>
    /\ debugged = <<>>
    /\ calls = <<>>
    /\ songs \in {<<SongOf(bars)>> : bars \in BarTexts}
    /\ tasks = <<>>
    /\ host = <<>>
    /\ parser = NewParser(<<>>)

\* this.build() of the sheet
Build ==
    /\ pc = "build"
    /\ songs' = [songs EXCEPT ![1].sheets[1].notes = build(songs[1].sheets[1]).notes]
    /\ error' = build(songs[1].sheets[1]).err
    /\ pc' = IF error' # NoError THEN "failed" ELSE "built"
    /\ UNCHANGED <<scanner, statements, stack, envs, running, ctx, printed, debugged, calls,
                   tasks, host, parser>>

NextBuild == Build

SpecBuild == InitBuild /\ [][NextBuild]_vars

MaxHolds == 2

\* pitch, then n hold markers, one space between the pieces
RECURSIVE Held(_, _)
Held(pitch, n) == IF n = 0 THEN pitch ELSE Held(pitch, n - 1) \o <<" ">> \o Hold

\* C11: a hold marker '--' right after a note adds one to that note's
\* duration and makes no entry of its own, and so does a hold marker after a
\* hold marker: a pitch followed by n hold markers builds one note of
\* duration 1 + n.
C11_HoldExtendsNote ==
    \A pitch \in Pitches, n \in 1..MaxHolds :
        pc = "built" /\ songs[1].sheets[1].bars = Held(pitch, n) \o <<"\n">>
        => songs[1].sheets[1].notes = <<[note |-> Str(pitch), length |-> 1 + n]>>

\* C26: bar text is split on whitespace. Whatever spaces and newlines stand
\* between or around the tokens of an accumulated bar text that has tokens,
\* no note is built for an empty string.
C26_NoEmptyNotes ==
    /\ pc = "built"
    /\ \E k \in DOMAIN songs[1].sheets[1].bars : songs[1].sheets[1].bars[k] \notin {" ", "\n"}
    => \A n \in DOMAIN songs[1].sheets[1].notes : songs[1].sheets[1].notes[n].note # Str(<<>>)

=============================================================================
